---- MODULE Spec2Model ----
(***************************************************************************)
(* State-machine model of the Webmonkey userscript manager:                *)
(*   - the script registry (Config) with its persisted document and        *)
(*     observers (src/src/modules/config.jsm),                             *)
(*   - scripts and their life cycle (src/src/modules/script.jsm),          *)
(*   - the dependency fetch chain (ScriptRequire.fetch),                   *)
(*   - the sandbox API with its call-stack check and the per-script        *)
(*     preference branch (src/src/modules/script/api.jsm, PreferenceManager)*)
(* Strings of the program are sequences of one-character strings, so that  *)
(* prefixes, concatenation and case folding are computed, not assumed.     *)
(***************************************************************************)
EXTENDS Integers, Sequences, FiniteSets, TLC

VARIABLES
  objs,      \* every Script object ever constructed, by object identity (index)
  scripts,   \* Config._scripts: the ordered collection, a sequence of object ids
  doc,       \* the content of config.xml: a sequence of <Script> entries
  trace,     \* what the last registry operation did to the outside: saves and notifications
  fs,        \* the file system: the set of existing paths (directories and files)
  flows,     \* the dependency fetch chains: object id -> state of its fetchDeps chain
  prefs,     \* the preference store: full preference name -> stored value
  owner,     \* for each stored preference, the script API through which it was stored
  stack,     \* the synchronous call stack from which the sandbox API is called
  effects,   \* calls made to the host services (console, tab browser, request, menu)
  last,      \* the last sandbox API call: function, calling script, outcome, return value
  ops,       \* the number of operations performed so far
  observers  \* Config._observers: the observers registered for every script

regVars == <<objs, scripts, doc, trace, fs>>
apiVars == <<owner, stack, effects, last>>
vars == <<objs, scripts, doc, trace, fs, flows, prefs, owner, stack, effects, last, ops,
          observers>>

(***************************************************************************)
(* Bounds of the model.                                                    *)
(***************************************************************************)
MaxOps == 5       \* registry operations performed in one run
MaxObjs == 2      \* Script objects constructed in one run of the registry
MaxMasks == 2     \* length up to which an include/exclude list is grown by edits

Null == "null"

(***************************************************************************)
(* Strings.                                                                *)
(***************************************************************************)
Range(s) == {s[i] : i \in DOMAIN s}

\* String.prototype.toLowerCase, on the alphabet of the model
LowerChar(c) ==
  CASE c = "A" -> "a"
    [] c = "B" -> "b"
    [] c = "N" -> "n"
    [] OTHER -> c

toLowerCase(s) == [i \in DOMAIN s |-> LowerChar(s[i])]

\* s.indexOf(p) == 0
StartsWith(s, p) == Len(s) >= Len(p) /\ SubSeq(s, 1, Len(p)) = p

EndsWithChar(s, c) == Len(s) > 0 /\ s[Len(s)] = c

RECURSIVE SelectChars(_, _)
SelectChars(s, keep) ==
  IF s = <<>> THEN <<>>
  ELSE (IF Head(s) \in keep THEN <<Head(s)>> ELSE <<>>) \o SelectChars(Tail(s), keep)

RECURSIVE SquashSpaces(_)
\* replace(/\s+/g, "_")
SquashSpaces(s) ==
  IF s = <<>> THEN <<>>
  ELSE IF Head(s) = " "
       THEN IF Len(s) > 1 /\ s[2] = " " THEN SquashSpaces(Tail(s))
            ELSE <<"_">> \o SquashSpaces(Tail(s))
       ELSE <<Head(s)>> \o SquashSpaces(Tail(s))

\* [-_A-Z0-9.] with the i flag, on the alphabet of the model
FilenameChars == {"a", "b", "c", "e", "i", "j", "k", "m", "n", "p", "q", "r", "s", "t", "u", "x",
                  "A", "B", "N", "-", "_", ".", "0", "1", "2"}

\* toFilename for a string argument: lower-case, blanks to "_", everything
\* outside [-_A-Z0-9.] dropped, the default when nothing is left
toFilename(aOrigin, aDefault) ==
  LET name == SelectChars(SquashSpaces(toLowerCase(aOrigin)), FilenameChars)
  IN IF Len(name) = 0 THEN aDefault ELSE name

DEFAULT_SCRIPT_NAME == <<"s", "c", "r", "i", "p", "t">>

\* name.substring(0, 24)
TruncateName(name) == IF Len(name) > 24 THEN SubSeq(name, 1, 24) ELSE name

USER_JS == <<".", "u", "s", "e", "r", ".", "j", "s">>

\* replace(/\.user\.js$/, "")
StripUserJs(s) ==
  IF Len(s) >= Len(USER_JS) /\ SubSeq(s, Len(s) - Len(USER_JS) + 1, Len(s)) = USER_JS
  THEN SubSeq(s, 1, Len(s) - Len(USER_JS))
  ELSE s

(***************************************************************************)
(* Arrays.  JavaScript indexes from 0 and answers -1 for "not found"; the  *)
(* model indexes from 1 and answers 0, so JS index i is model index i + 1. *)
(***************************************************************************)
\* Array.prototype.indexOf
IndexOf(seq, x) ==
  IF \E i \in DOMAIN seq : seq[i] = x
  THEN CHOOSE i \in DOMAIN seq : seq[i] = x /\ \A j \in 1..(i - 1) : seq[j] # x
  ELSE 0

\* seq.splice(jsIndex, 1) for a JS index >= 0: beyond the end nothing is removed
RemoveAt(seq, i) ==
  IF i \in DOMAIN seq THEN SubSeq(seq, 1, i - 1) \o SubSeq(seq, i + 1, Len(seq)) ELSE seq

\* seq.splice(idx, 1) where idx is the answer of a search: the JS index -1
\* (model 0) counts from the end, so splice(-1, 1) removes the last element
SpliceFound(seq, i) ==
  IF i = 0 THEN (IF seq = <<>> THEN seq ELSE SubSeq(seq, 1, Len(seq) - 1))
  ELSE RemoveAt(seq, i)

\* seq.splice(to, 0, x)
InsertAt(seq, i, x) == SubSeq(seq, 1, i - 1) \o <<x>> \o SubSeq(seq, i, Len(seq))

Max(a, b) == IF a > b THEN a ELSE b
Min(a, b) == IF a < b THEN a ELSE b

(***************************************************************************)
(* The file system (nsIFile, behind src/src/modules/file.js).  A directory *)
(* is [root, base, n]: under the temp folder or the scripts folder, named  *)
(* base, with the numeric suffix createUnique gave it (0: none).  fs maps  *)
(* each existing directory to the set of the files in it.                  *)
(***************************************************************************)
Dir(root, base, n) == [root |-> root, base |-> base, n |-> n]

\* nsIFile.createUnique: the name itself, else the first free variation of it
UniqueSuffix(taken) == CHOOSE k \in 0..Cardinality(taken) :
                          k \notin taken /\ \A j \in 0..(k - 1) : j \in taken

File_createUniqueDir(files, root, base) ==
  Dir(root, base, UniqueSuffix({d.n : d \in {e \in DOMAIN files : e.root = root /\ e.base = base}}))

File_createUniqueFile(content, base) ==
  [base |-> base, n |-> UniqueSuffix({f.n : f \in {g \in content : g.base = base}})]

FsAdd(files, d, content) == [e \in DOMAIN files \cup {d} |-> IF e = d THEN content ELSE files[e]]
FsRemove(files, d) == [e \in DOMAIN files \ {d} |-> files[e]]
FsMove(files, from, to) ==
  [e \in (DOMAIN files \ {from}) \cup {to} |-> IF e = to THEN files[from] ELSE files[e]]

(***************************************************************************)
(* The preference store (nsIPrefBranch behind PreferenceManager).          *)
(***************************************************************************)
PREF_ROOT == <<"w", "e", "b", "m", "o", "n", "k", "e", "y">>
SCRIPTVALS == <<"s", "c", "r", "i", "p", "t", "v", "a", "l", "s", ".">>

\* new PreferenceManager(origin)._origin
PreferenceManager(origin) == origin \o (IF Len(origin) > 0 THEN <<".">> ELSE <<>>)

\* PreferenceManager.prototype.subManager: the branch prefix of the sub-manager
subManager(parentOrigin, origin) == PreferenceManager(parentOrigin \o origin)

\* GM_prefRoot = new PreferenceManager("webmonkey")
GM_prefRoot == PreferenceManager(PREF_ROOT)

\* nsIPrefBranch.deleteBranch: the preference named so, and all those below it
InBranch(full, start) ==
  LET dotted == IF EndsWithChar(start, ".") THEN start ELSE start \o <<".">>
  IN StartsWith(full, dotted) \/ full \o <<".">> = dotted

\* PreferenceManager.prototype.remove
PreferenceManager_remove(store, branch, origin) ==
  [k \in {f \in DOMAIN store : ~InBranch(f, branch \o origin)} |-> store[k]]

(***************************************************************************)
(* Scripts (src/src/modules/script.jsm, script/metadata.jsm).              *)
(* A registry-side operation is a function from the state it reads and     *)
(* writes, the record R = [objs, scripts, doc, trace, fs, prefs], to the   *)
(* state it leaves; an operation that throws leaves what it had done so    *)
(* far and a final "throw" event in the trace.                             *)
(***************************************************************************)
Reg == [objs |-> objs, scripts |-> scripts, doc |-> doc, trace |-> <<>>, fs |-> fs,
        prefs |-> prefs, observers |-> observers]

Threw(R) == R.trace # <<>> /\ R.trace[Len(R.trace)].kind = "throw"
Throw(R, what) == [R EXCEPT !.trace = @ \o <<[kind |-> "throw", what |-> what]>>]

\* ScriptRequire.prototype.toXml, ScriptResource.prototype.toXml
ScriptRequire_toXml(dep) ==
  IF dep.kind = "require" THEN [filename |-> dep.filename]
  ELSE [name |-> dep.name, filename |-> dep.filename, mimetype |-> dep.mimetype]

\* Script.prototype.toXml with ScriptMetadata.prototype.toXml: one <Script> entry
Script_toXml(o) ==
  [basedir     |-> <<o.directory.base, o.directory.n>>,
   filename    |-> o.filename,
   name        |-> o.name,
   namespace   |-> o.namespace,
   description |-> o.description,
   enabled     |-> IF o.enabled THEN "true" ELSE "false",
   Include     |-> o.includes,
   Exclude     |-> o.excludes,
   Require     |-> [i \in DOMAIN o.requires |-> ScriptRequire_toXml(o.requires[i])],
   Resource    |-> [i \in DOMAIN o.resources |-> ScriptRequire_toXml(o.resources[i])]]

\* ScriptMetadata.prototype.parse on a header that gives these values (Null: not given)
ScriptMetadata_parse(src, uri) ==
  [name        |-> src.name,
   namespace   |-> src.namespace,
   description |-> <<>>,
   includes    |-> IF Len(src.includes) = 0 THEN <<<<"*">>>> ELSE src.includes,
   excludes    |-> src.excludes,
   requires    |-> src.requires,
   resources   |-> src.resources,
   enabled     |-> TRUE]

\* ScriptResource.prototype.parse, the assertion on the resources declared by
\* earlier lines: a later @resource line repeats the name of an earlier one
DuplicateResource(resources) ==
  \E i, j \in DOMAIN resources : i < j /\ resources[i].name = resources[j].name

\* fromSource taking every @resource line whatever its name
Script_fromSource_anyResource(R, src, uri) ==
  LET meta == ScriptMetadata_parse(src, uri)
      name == TruncateName(toFilename(meta.name, DEFAULT_SCRIPT_NAME))
      dir  == File_createUniqueDir(R.fs, "tmp", name)
      file == name \o USER_JS
      o    == [name |-> meta.name, namespace |-> meta.namespace,
               description |-> meta.description, enabled |-> meta.enabled,
               includes |-> meta.includes, excludes |-> meta.excludes,
               requires |-> meta.requires, resources |-> meta.resources,
               config |-> FALSE, downloadURL |-> uri, filename |-> file,
               directory |-> dir, observers |-> <<>>, api |-> <<>>]
  IN [R EXCEPT !.objs = Append(@, o),
               !.fs = FsAdd(@, dir, {[base |-> file, n |-> 0]})]

\* Script.fromSource: the new object and its fresh directory in the temp folder;
\* parse throws before either exists
Script_fromSource(R, src, uri) ==
  IF DuplicateResource(src.resources) THEN Throw(R, "Duplicate resource name") ELSE
  LET meta == ScriptMetadata_parse(src, uri)
      name == TruncateName(toFilename(meta.name, DEFAULT_SCRIPT_NAME))
      dir  == File_createUniqueDir(R.fs, "tmp", name)
      file == name \o USER_JS
      o    == [name |-> meta.name, namespace |-> meta.namespace,
               description |-> meta.description, enabled |-> meta.enabled,
               includes |-> meta.includes, excludes |-> meta.excludes,
               requires |-> meta.requires, resources |-> meta.resources,
               config |-> FALSE, downloadURL |-> uri, filename |-> file,
               directory |-> dir, observers |-> <<>>, api |-> <<>>]
  IN [R EXCEPT !.objs = Append(@, o),
               !.fs = FsAdd(@, dir, {[base |-> file, n |-> 0]})]

\* Script.prototype.install: move the script's directory into the scripts folder
Script_install(R, id) ==
  LET o   == R.objs[id]
      dir == File_createUniqueDir(R.fs, "scripts", StripUserJs(o.filename))
      R1  == [R EXCEPT !.objs[id].config = TRUE]
  IN IF o.directory \notin DOMAIN R.fs
     THEN Throw(R1, "moveTo")
     ELSE [R1 EXCEPT !.fs = FsMove(@, o.directory, dir),
                     !.objs[id].directory = dir]

(***************************************************************************)
(* The registry (src/src/modules/config.jsm).                              *)
(***************************************************************************)
SameIdentity(a, b) ==
  /\ toLowerCase(a.namespace) = toLowerCase(b.namespace)
  /\ toLowerCase(a.name) = toLowerCase(b.name)

\* _find comparing namespace and name as written, without toLowerCase
Config_find_caseSensitive(R, id) ==
  LET hit(i) == /\ R.objs[R.scripts[i]].namespace = R.objs[id].namespace
                /\ R.objs[R.scripts[i]].name = R.objs[id].name
  IN IF \E i \in DOMAIN R.scripts : hit(i)
     THEN CHOOSE i \in DOMAIN R.scripts : hit(i) /\ \A j \in 1..(i - 1) : ~hit(j)
     ELSE 0

\* Config.prototype._find: the first tracked script of aScript's identity
Config_find(R, id) ==
  LET hit(i) == SameIdentity(R.objs[R.scripts[i]], R.objs[id])
  IN IF \E i \in DOMAIN R.scripts : hit(i)
     THEN CHOOSE i \in DOMAIN R.scripts : hit(i) /\ \A j \in 1..(i - 1) : ~hit(j)
     ELSE 0

\* Config.prototype._saveToXml
Config_saveToXml(R) ==
  LET written == [i \in DOMAIN R.scripts |-> Script_toXml(R.objs[R.scripts[i]])]
  IN [R EXCEPT !.doc = written,
               !.trace = @ \o <<[kind |-> "save", doc |-> written]>>]

\* Config.prototype.addObserver: script is 0 when no script is given
Config_addObserver(R, observer, script) ==
  IF script # 0 THEN [R EXCEPT !.objs[script].observers = Append(@, observer)]
  ELSE [R EXCEPT !.observers = Append(@, observer)]

\* removeObserver splicing at whatever indexOf returned
Config_removeObserver_unchecked(R, observer, script) ==
  LET list  == IF script # 0 THEN R.objs[script].observers ELSE R.observers
      index == IndexOf(list, observer)
  IN IF script # 0 THEN [R EXCEPT !.objs[script].observers = SpliceFound(@, index)]
     ELSE [R EXCEPT !.observers = SpliceFound(@, index)]

\* Config.prototype.removeObserver
Config_removeObserver(R, observer, script) ==
  LET list  == IF script # 0 THEN R.objs[script].observers ELSE R.observers
      index == IndexOf(list, observer)
  IN IF index = 0 THEN Throw(R, "Observer not found")
     ELSE IF script # 0 THEN [R EXCEPT !.objs[script].observers = RemoveAt(@, index)]
     ELSE [R EXCEPT !.observers = RemoveAt(@, index)]

\* the calls of notifyEvent the loop of _notifyObservers makes, in order
Notifications(observers_, id, event, data) ==
  [i \in DOMAIN observers_ |->
     [observer |-> observers_[i], script |-> id, event |-> event, data |-> data]]

\* _notifyObservers going through the registry's own observers only
Config_notifyObservers_globalOnly(R, id, event, data) ==
  [R EXCEPT !.trace = @ \o <<[kind |-> "notify", script |-> id, event |-> event,
                              data |-> data,
                              calls |-> Notifications(R.observers, id, event, data),
                              coll |-> [i \in DOMAIN R.scripts |-> R.objs[R.scripts[i]]],
                              doc |-> R.doc]>>]

\* Config.prototype._notifyObservers: what the observers are handed, and the
\* collection and the document as they are at that moment
Config_notifyObservers(R, id, event, data) ==
  [R EXCEPT !.trace = @ \o <<[kind |-> "notify", script |-> id, event |-> event,
                              data |-> data,
                              calls |-> Notifications(R.observers \o R.objs[id].observers,
                                                      id, event, data),
                              coll |-> [i \in DOMAIN R.scripts |-> R.objs[R.scripts[i]]],
                              doc |-> R.doc]>>]

\* _changed notifying the observers before it saves
Config_changed_notifyFirst(R, id, event, data) ==
  Config_saveToXml(Config_notifyObservers(R, id, event, data))

\* Config.prototype._changed
Config_changed(R, id, event, data) ==
  Config_notifyObservers(Config_saveToXml(R), id, event, data)

\* an edit telling the observers without saving the document
Script_changed_notifyOnly(R, id, event, data) ==
  IF R.objs[id].config THEN Config_notifyObservers(R, id, event, data)
  ELSE Throw(R, "TypeError")

\* Script.prototype._changed: this._config._changed(this, event, data)
Script_changed(R, id, event, data) ==
  IF R.objs[id].config THEN Config_changed(R, id, event, data)
  ELSE Throw(R, "TypeError")

\* uninstall purging the script's preferences whatever the flag
Config_uninstall_alwaysPurges(R, id, uninstallPrefs) ==
  LET o   == R.objs[id]
      idx == Config_find(R, id)
      R1  == Config_changed([R EXCEPT !.scripts = SpliceFound(@, idx)], id, "uninstall", Null)
      R2  == [R1 EXCEPT !.fs = FsRemove(@, o.directory)]
  IN IF o.directory \notin DOMAIN R1.fs THEN Throw(R1, "remove")
     ELSE [R2 EXCEPT !.prefs = PreferenceManager_remove(@, GM_prefRoot,
                                 SCRIPTVALS \o o.namespace \o <<"/">> \o o.name \o <<".">>)]

\* uninstall leaving the script in the collection
Config_uninstall_keepsTracked(R, id, uninstallPrefs) ==
  LET o   == R.objs[id]
      R1  == Config_changed(R, id, "uninstall", Null)
      R2  == [R1 EXCEPT !.fs = FsRemove(@, o.directory)]
  IN IF o.directory \notin DOMAIN R1.fs THEN Throw(R1, "remove")
     ELSE IF uninstallPrefs
          THEN [R2 EXCEPT !.prefs = PreferenceManager_remove(@, GM_prefRoot,
                                      SCRIPTVALS \o o.namespace \o <<"/">> \o o.name \o <<".">>)]
          ELSE R2

\* Config.prototype.uninstall
Config_uninstall(R, id, uninstallPrefs) ==
  LET o   == R.objs[id]
      idx == Config_find(R, id)
      R1  == Config_changed([R EXCEPT !.scripts = SpliceFound(@, idx)], id, "uninstall", Null)
      R2  == [R1 EXCEPT !.fs = FsRemove(@, o.directory)]
  IN IF o.directory \notin DOMAIN R1.fs THEN Throw(R1, "remove")
     ELSE IF uninstallPrefs
          THEN [R2 EXCEPT !.prefs = PreferenceManager_remove(@, GM_prefRoot,
                                      SCRIPTVALS \o o.namespace \o <<"/">> \o o.name \o <<".">>)]
          ELSE R2

\* install appending the script without looking for a tracked one of its identity
Config_install_keepsExisting(R, id) ==
  LET R2 == Script_install(R, id)
  IN IF Threw(R2) THEN R2
     ELSE Config_changed([R2 EXCEPT !.scripts = Append(@, id)], id, "install", Null)

\* Config.prototype.getMatchingScripts with the test functions its callers pass
TestFuncs == {"any", "enabled"}
Test(testFunc, o) == IF testFunc = "enabled" THEN o.enabled ELSE TRUE
Config_getMatchingScripts(R, testFunc) ==
  LET keep(id) == Test(testFunc, R.objs[id]) IN SelectSeq(R.scripts, keep)

\* install pushing the script before it uninstalls the tracked one of its identity
Config_install_pushFirst(R, id) ==
  LET existingIndex == Config_find(R, id)
      R0 == [R EXCEPT !.scripts = Append(@, id)]
      R1 == IF existingIndex > 0 THEN Config_uninstall(R0, R.scripts[existingIndex], FALSE)
            ELSE R0
      R2 == Script_install(R1, id)
  IN IF Threw(R1) THEN R1
     ELSE IF Threw(R2) THEN R2
     ELSE Config_changed(R2, id, "install", Null)

\* Config.prototype.install
Config_install(R, id) ==
  LET existingIndex == Config_find(R, id)
      R1 == IF existingIndex > 0 THEN Config_uninstall(R, R.scripts[existingIndex], FALSE)
            ELSE R
      R2 == Script_install(R1, id)
  IN IF Threw(R1) THEN R1
     ELSE IF Threw(R2) THEN R2
     ELSE Config_changed([R2 EXCEPT !.scripts = Append(@, id)], id, "install", Null)

\* move looking the destination script up after the moved one was taken out
Config_move_lateLookup(R, id, destination) ==
  LET from == IndexOf(R.scripts, id)
      to   == IF "offset" \in DOMAIN destination
              THEN Min(Len(R.scripts), Max(1, from + destination.offset))
              ELSE IndexOf(RemoveAt(R.scripts, from), destination.script)
  IN IF from = 0 THEN R
     ELSE IF to = 0 THEN R
     ELSE Config_changed([R EXCEPT !.scripts = InsertAt(RemoveAt(@, from), to, id)],
                         id, "move", to - 1)

\* move taking the offset for the index to move to
Config_move_absolute(R, id, destination) ==
  LET from == IndexOf(R.scripts, id)
      to   == IF "offset" \in DOMAIN destination
              THEN Min(Len(R.scripts), Max(1, 1 + destination.offset))
              ELSE IndexOf(R.scripts, destination.script)
  IN IF from = 0 THEN R
     ELSE IF to = 0 THEN R
     ELSE Config_changed([R EXCEPT !.scripts = InsertAt(RemoveAt(@, from), to, id)],
                         id, "move", to - 1)

\* move putting the script at its new index without taking it out of the old one
Config_move_keepsSource(R, id, destination) ==
  LET from == IndexOf(R.scripts, id)
      to   == IF "offset" \in DOMAIN destination
              THEN Min(Len(R.scripts), Max(1, from + destination.offset))
              ELSE IndexOf(R.scripts, destination.script)
  IN IF from = 0 THEN R
     ELSE IF to = 0 THEN R
     ELSE Config_changed([R EXCEPT !.scripts = InsertAt(@, to, id)], id, "move", to - 1)

\* Config.prototype.move: destination is an offset [offset |-> d] or a script [script |-> id]
Config_move(R, id, destination) ==
  LET from == IndexOf(R.scripts, id)
      to   == IF "offset" \in DOMAIN destination
              THEN Min(Len(R.scripts), Max(1, from + destination.offset))
              ELSE IndexOf(R.scripts, destination.script)
  IN IF from = 0 THEN R
     ELSE IF to = 0 THEN R
     ELSE Config_changed([R EXCEPT !.scripts = InsertAt(RemoveAt(@, from), to, id)],
                         id, "move", to - 1)

(***************************************************************************)
(* Metadata edits (src/src/modules/script/metadata.jsm).                   *)
(***************************************************************************)
\* ScriptMetadata.prototype.enabled (setter)
ScriptMetadata_setEnabled(R, id, enabled) ==
  Script_changed([R EXCEPT !.objs[id].enabled = enabled], id, "edit-enabled", enabled)

ScriptMetadata_addInclude(R, id, url) ==
  Script_changed([R EXCEPT !.objs[id].includes = Append(@, url)], id, "edit-include-add", url)

\* index is the JS index
ScriptMetadata_removeIncludeAt(R, id, index) ==
  Script_changed([R EXCEPT !.objs[id].includes = RemoveAt(@, index + 1)], id,
                 "edit-include-remove", index)

ScriptMetadata_addExclude(R, id, url) ==
  Script_changed([R EXCEPT !.objs[id].excludes = Append(@, url)], id, "edit-exclude-add", url)

ScriptMetadata_removeExcludeAt(R, id, index) ==
  Script_changed([R EXCEPT !.objs[id].excludes = RemoveAt(@, index + 1)], id,
                 "edit-exclude-remove", index)

(***************************************************************************)
(* The registry as a state machine.                                        *)
(***************************************************************************)
EmptyMap == [x \in {} |-> x]

Names == {<<"a">>, <<"A">>, <<"b">>}
Namespaces == {<<"n">>}
Masks == {<<"h">>}
\* a header with two @resource lines of the same name
TwiceDeclared(url) ==
  [kind |-> "resource", name |-> <<"d">>, filename |-> <<>>, mimetype |-> <<>>,
   downloadURL |-> [scheme |-> "http", path |-> url]]
DuplicateSource ==
  [name |-> <<"b">>, namespace |-> <<"n">>, includes |-> <<>>, excludes |-> <<>>,
   requires |-> <<>>,
   resources |-> <<TwiceDeclared(<<"/", "1">>), TwiceDeclared(<<"/", "2">>)>>]
Sources == [name : Names, namespace : Namespaces, includes : {<<>>}, excludes : {<<>>},
            requires : {<<>>}, resources : {<<>>}]
Offsets == (0 - MaxObjs)..MaxObjs
Ids == DOMAIN objs

NoCall == [api |-> Null]

Commit(R) ==
  /\ objs' = R.objs
  /\ scripts' = R.scripts
  /\ doc' = R.doc
  /\ trace' = R.trace
  /\ fs' = R.fs
  /\ prefs' = R.prefs
  /\ observers' = R.observers
  /\ ops < MaxOps
  /\ ops' = ops + 1
  /\ UNCHANGED <<flows, owner, stack, effects, last>>

\* doInstall of the new-script dialog, first half: Script.fromSource(source)
FromSource ==
  \E src \in Sources \cup {DuplicateSource} :
    /\ Len(objs) < MaxObjs
    /\ Commit(Script_fromSource(Reg, src, Null))

Install == \E id \in Ids : Commit(Config_install(Reg, id))

Uninstall == \E id \in Ids, uninstallPrefs \in BOOLEAN :
               Commit(Config_uninstall(Reg, id, uninstallPrefs))

Move ==
  \E id \in Ids :
    \/ \E d \in Offsets : Commit(Config_move(Reg, id, [offset |-> d]))
    \/ \E t \in Ids : Commit(Config_move(Reg, id, [script |-> t]))

SetEnabled == \E id \in Ids, b \in BOOLEAN : Commit(ScriptMetadata_setEnabled(Reg, id, b))

AddInclude ==
  \E id \in Ids, url \in Masks :
    /\ Len(objs[id].includes) < MaxMasks
    /\ Commit(ScriptMetadata_addInclude(Reg, id, url))

RemoveIncludeAt ==
  \E id \in Ids, index \in 0..(MaxMasks - 1) :
    Commit(ScriptMetadata_removeIncludeAt(Reg, id, index))

AddExclude ==
  \E id \in Ids, url \in Masks :
    /\ Len(objs[id].excludes) < MaxMasks
    /\ Commit(ScriptMetadata_addExclude(Reg, id, url))

RemoveExcludeAt ==
  \E id \in Ids, index \in 0..(MaxMasks - 1) :
    Commit(ScriptMetadata_removeExcludeAt(Reg, id, index))

\* ScriptRequire.prototype._fromXml, ScriptResource.prototype._fromXml
ScriptRequire_fromXml(kind, node) ==
  [kind |-> kind, name |-> IF kind = "resource" THEN node.name ELSE <<>>,
   filename |-> node.filename,
   mimetype |-> IF kind = "resource" THEN node.mimetype ELSE <<>>,
   downloadURL |-> [scheme |-> "null", path |-> <<>>]]

\* Script.fromConfig with Script.prototype._fromXml and ScriptMetadata.prototype.fromXml
Script_fromConfig(node) ==
  [name |-> node.name, namespace |-> node.namespace, description |-> node.description,
   enabled |-> (node.enabled = "true"),
   includes |-> node.Include, excludes |-> node.Exclude,
   requires |-> [i \in DOMAIN node.Require |-> ScriptRequire_fromXml("require", node.Require[i])],
   resources |-> [i \in DOMAIN node.Resource |-> ScriptRequire_fromXml("resource", node.Resource[i])],
   config |-> TRUE, downloadURL |-> Null, filename |-> node.filename,
   directory |-> Dir("scripts", node.basedir[1], node.basedir[2]), observers |-> <<>>,
   api |-> <<>>]

\* new Config() with Config.prototype._loadFromXml: the browser starts again,
\* the script objects are made anew from the document and nobody observes yet
Config_loadFromXml(R) ==
  [R EXCEPT !.objs = [i \in DOMAIN R.doc |-> Script_fromConfig(R.doc[i])],
            !.scripts = [i \in DOMAIN R.doc |-> i],
            !.observers = <<>>,
            !.trace = @ \o <<[kind |-> "load"]>>]

LoadFromXml == Commit(Config_loadFromXml(Reg))

\* a tracked script stores a value of its own (GM_setValue from its own code):
\* the preference it writes is named after the script's namespace and name
StoredKey == <<"k">>
StoredValue == [type |-> "string", s |-> "x", n |-> 0, int32 |-> FALSE]
ScriptValue(o, key) ==
  GM_prefRoot \o SCRIPTVALS \o o.namespace
    \o (IF EndsWithChar(o.namespace, "/") THEN <<>> ELSE <<"/">>) \o o.name \o <<".">> \o key
StoreValue ==
  \E id \in Ids :
    /\ \E i \in DOMAIN scripts : scripts[i] = id
    /\ ScriptValue(objs[id], StoredKey) \notin DOMAIN prefs
    /\ prefs' = [f \in DOMAIN prefs \cup {ScriptValue(objs[id], StoredKey)} |->
                   IF f = ScriptValue(objs[id], StoredKey) THEN StoredValue ELSE prefs[f]]
    /\ trace' = <<>>
    /\ UNCHANGED <<objs, scripts, doc, fs, flows, owner, stack, effects, last, ops, observers>>

Init ==
  /\ objs = <<>>
  /\ scripts = <<>>
  /\ doc = <<>>
  /\ trace = <<>>
  /\ fs = EmptyMap
  /\ flows = EmptyMap
  /\ prefs = EmptyMap
  /\ owner = EmptyMap
  /\ stack = <<>>
  /\ effects = <<>>
  /\ last = NoCall
  /\ ops = 0
  /\ observers = <<>>

Next ==
  \/ FromSource
  \/ Install
  \/ Uninstall
  \/ Move
  \/ SetEnabled
  \/ AddInclude
  \/ RemoveIncludeAt
  \/ AddExclude
  \/ RemoveExcludeAt
  \/ StoreValue

Spec == Init /\ [][Next]_vars

\* the registry over several sessions of the browser: the script objects of
\* one session are gone in the next
NextLoad ==
  \/ Next
  \/ LoadFromXml

SpecLoad == Init /\ [][NextLoad]_vars

(***************************************************************************)
(* Properties of the registry.                                             *)
(***************************************************************************)
IsNotify(e) == e.kind = "notify"

\* C1: in every reachable state no two tracked scripts have the same
\* (namespace, name) pair, the pair being compared case-insensitively.
C1_UniqueIdentity ==
  \A i, j \in DOMAIN scripts :
    i # j => ~(/\ toLowerCase(objs[scripts[i]].namespace) = toLowerCase(objs[scripts[j]].namespace)
               /\ toLowerCase(objs[scripts[i]].name) = toLowerCase(objs[scripts[j]].name))

\* an install has just replaced a tracked script whose name differs only in case
C1_Witness ==
  \E i, j \in DOMAIN trace :
    /\ i < j
    /\ IsNotify(trace[i]) /\ trace[i].event = "uninstall"
    /\ IsNotify(trace[j]) /\ trace[j].event = "install"
    /\ objs[trace[i].script].name # objs[trace[j].script].name
    /\ toLowerCase(objs[trace[i].script].name) = toLowerCase(objs[trace[j].script].name)
    /\ scripts # <<>>

\* C2: every notification of a registry change is immediately preceded by a
\* write of the document, and the document the observers find at that moment
\* is the serialization of the collection as it is in memory at that moment.
C2_SaveBeforeNotify ==
  \A i \in DOMAIN trace :
    IsNotify(trace[i]) =>
      /\ i > 1
      /\ trace[i - 1].kind = "save"
      /\ trace[i].doc = trace[i - 1].doc
      /\ trace[i].doc = [k \in DOMAIN trace[i].coll |-> Script_toXml(trace[i].coll[k])]

\* a metadata edit of a tracked script has been notified
C2_Witness ==
  \E i \in DOMAIN trace :
    /\ IsNotify(trace[i])
    /\ trace[i].event = "edit-include-add"
    /\ trace[i].coll # <<>>
    /\ trace[i].doc # <<>>

(***************************************************************************)
(* The script API (src/src/modules/script/api.jsm) and the preference      *)
(* store behind it (src/src/modules/file.js).                              *)
(* The store maps full preference names to values; a value is a record     *)
(* [type, s, n, int32] of its typeof, its string, its number and whether   *)
(* the number is a whole number of 32 bits.                                *)
(***************************************************************************)
MaxStack == 2     \* frames of callers above a bound function
MaxCalls == 3     \* API calls made in one run

JAVASCRIPT == 2

\* String.prototype.substr(start, length), start counted from 0
substr(s, start, length) == SubSeq(s, start + 1, Min(Len(s), start + length))

\* const FILE = Components.stack.filename: the location of api.jsm itself
FILE == <<"f", "i", "l", "e", ":", "a", "p", "i">>
CHROME == <<"c", "h", "r", "o", "m", "e">>

\* File.prototype.uri.spec of the file named so in a script's directory
File_uri(dir, name) ==
  <<"f", "i", "l", "e", ":">> \o dir.base
    \o (IF dir.n = 0 THEN <<>> ELSE <<"-", <<"0", "1", "2", "3", "4">>[dir.n + 1]>>)
    \o <<"/">> \o name

\* ScriptMetadata.prototype.sourceFiles: the requires' files, then the script's
ScriptMetadata_sourceFiles(o) ==
  [i \in DOMAIN o.requires |-> File_uri(o.directory, o.requires[i].filename)]
    \o <<File_uri(o.directory, o.filename)>>

\* new ScriptApi(script)
ScriptApi(o) ==
  LET id == o.namespace \o (IF EndsWithChar(o.namespace, "/") THEN <<>> ELSE <<"/">>)
              \o o.name
  IN [id    |-> id,
      prefs |-> subManager(GM_prefRoot, SCRIPTVALS \o id),
      files |-> ScriptMetadata_sourceFiles(o)]

\* a frame of Components.stack
Frame(language, filename) == [language |-> language, named |-> TRUE, filename |-> filename]
Unnamed(language) == [language |-> language, named |-> FALSE, filename |-> <<>>]

\* Components.stack inside _apiLeakCheck: the check itself, the API method and
\* the closure made by _bind are frames of api.jsm; the callers are below them
Components_stack(callers) == <<Frame(JAVASCRIPT, FILE), Frame(JAVASCRIPT, FILE),
                               Frame(JAVASCRIPT, FILE)>> \o callers

\* the condition of _apiLeakCheck without the exemption of the script's source files
Stained_ownFilesToo(api, frame) ==
  /\ frame.language = JAVASCRIPT
  /\ frame.named
  /\ substr(frame.filename, 0, 6) # CHROME
  /\ frame.filename # FILE

\* the condition of _apiLeakCheck on one frame
Stained(api, frame) ==
  /\ frame.language = JAVASCRIPT
  /\ frame.named
  /\ substr(frame.filename, 0, 6) # CHROME
  /\ frame.filename # FILE
  /\ IndexOf(api.files, frame.filename) = 0

\* _apiLeakCheck looking at the innermost caller only, not at the callers' callers
ScriptApi_apiLeakCheck_innermost(api, callers) ==
  LET stk == Components_stack(callers)
  IN IF Len(stk) >= 4 /\ Stained(api, stk[4]) THEN 4 ELSE 0

\* ScriptApi.prototype._apiLeakCheck: the first stained frame, 0 if there is none
ScriptApi_apiLeakCheck(api, callers) ==
  LET stk == Components_stack(callers)
  IN IF \E i \in DOMAIN stk : Stained(api, stk[i])
     THEN CHOOSE i \in DOMAIN stk :
            Stained(api, stk[i]) /\ \A j \in 1..(i - 1) : ~Stained(api, stk[j])
     ELSE 0

\* the outcome of a call: the store and the host services' calls it leaves
Result(store, eff, outcome, ret) ==
  [store |-> store, effects |-> eff, outcome |-> outcome, ret |-> ret]

\* throw this.logError(new Error("Webmonkey access violation: ..."))
AccessViolation(api, callers, apiName, store) ==
  LET stk == Components_stack(callers)
      i   == ScriptApi_apiLeakCheck(api, callers)
  IN Result(store, <<[svc |-> "CONSOLE.logMessage", file |-> stk[i].filename,
                      api |-> apiName]>>, "AccessViolation", {})

\* PreferenceManager.prototype.exists
PreferenceManager_exists(store, branch, key) == (branch \o key) \in DOMAIN store

\* PreferenceManager.prototype.get
PreferenceManager_get(store, branch, key, defaultValue) ==
  IF (branch \o key) \in DOMAIN store THEN {store[branch \o key]} ELSE defaultValue

\* PreferenceManager.prototype.set: the type check
Supported(value) ==
  \/ value.type \in {"string", "boolean"}
  \/ value.type = "number" /\ value.int32   \* value % 1 == 0, within 32 bits

\* PreferenceManager.prototype.set, on a supported value
PreferenceManager_set(store, branch, key, value) ==
  LET old == IF PreferenceManager_exists(store, branch, key)
                  /\ store[branch \o key].type # value.type
             THEN PreferenceManager_remove(store, branch, key)
             ELSE store
  IN [f \in DOMAIN old \cup {branch \o key} |-> IF f = branch \o key THEN value ELSE old[f]]

\* PreferenceManager.prototype.list: nsIPrefBranch.getChildList, names below the branch
PreferenceManager_list(store, branch, origin) ==
  {SubSeq(f, Len(branch) + 1, Len(f)) : f \in {g \in DOMAIN store : StartsWith(g, branch \o origin)}}

\* ScriptMetadata.prototype.getResource: the index of the resource named so, or 0
ScriptMetadata_getResource(o, aName) ==
  IF \E i \in DOMAIN o.resources : o.resources[i].name = aName
  THEN CHOOSE i \in DOMAIN o.resources :
         o.resources[i].name = aName /\ \A j \in 1..(i - 1) : o.resources[j].name # aName
  ELSE 0

(* The GM_* methods, as bound by ScriptApi.prototype.sandbox: o is the     *)
(* script, callers the frames below the bound function, store the          *)
(* preference store.                                                       *)
GM_log(o, callers, store, aMessage) ==
  Result(store, <<[svc |-> "CONSOLE.logStringMessage", id |-> ScriptApi(o).id,
                   arg |-> aMessage]>>, "ok", {})

GM_getValue(o, callers, store, aKey, aDefaultValue) ==
  IF ScriptApi_apiLeakCheck(ScriptApi(o), callers) # 0
  THEN AccessViolation(ScriptApi(o), callers, "GM_getValue", store)
  ELSE Result(store, <<>>, "ok",
              PreferenceManager_get(store, ScriptApi(o).prefs, aKey, aDefaultValue))

GM_setValue(o, callers, store, aKey, aValue) ==
  IF ScriptApi_apiLeakCheck(ScriptApi(o), callers) # 0
  THEN AccessViolation(ScriptApi(o), callers, "GM_setValue", store)
  ELSE IF ~Supported(aValue)
  THEN Result(store, <<>>, "Error", {})
  ELSE Result(PreferenceManager_set(store, ScriptApi(o).prefs, aKey, aValue), <<>>, "ok", {})

GM_deleteValue(o, callers, store, aKey) ==
  IF ScriptApi_apiLeakCheck(ScriptApi(o), callers) # 0
  THEN AccessViolation(ScriptApi(o), callers, "GM_deleteValue", store)
  ELSE Result(PreferenceManager_remove(store, ScriptApi(o).prefs, aKey), <<>>, "ok", {})

GM_listValues(o, callers, store) ==
  IF ScriptApi_apiLeakCheck(ScriptApi(o), callers) # 0
  THEN AccessViolation(ScriptApi(o), callers, "GM_listValues", store)
  ELSE Result(store, <<>>, "ok", PreferenceManager_list(store, ScriptApi(o).prefs, <<>>))

GM_openInTab(o, callers, store, aUrl) ==
  Result(store, <<[svc |-> "tabBrowser.addTab", id |-> ScriptApi(o).id, arg |-> aUrl]>>,
         "ok", {})

GM_xmlhttpRequest(o, callers, store, aDetails) ==
  IF ScriptApi_apiLeakCheck(ScriptApi(o), callers) # 0
  THEN AccessViolation(ScriptApi(o), callers, "GM_xmlhttpRequest", store)
  ELSE Result(store, <<[svc |-> "xhr.contentStartRequest", id |-> ScriptApi(o).id,
                        arg |-> aDetails]>>, "ok", {})

GM_registerMenuCommand(o, callers, store, aCommandName) ==
  IF ScriptApi_apiLeakCheck(ScriptApi(o), callers) # 0
  THEN AccessViolation(ScriptApi(o), callers, "GM_registerMenuCommand", store)
  ELSE Result(store, <<[svc |-> "commander.registerMenuCommand", id |-> ScriptApi(o).id,
                        arg |-> aCommandName]>>, "ok", {})

GM_getResourceText(o, callers, store, aName) ==
  IF ScriptApi_apiLeakCheck(ScriptApi(o), callers) # 0
  THEN AccessViolation(ScriptApi(o), callers, "GM_getResourceText", store)
  ELSE IF ScriptMetadata_getResource(o, aName) = 0
  THEN Result(store, <<>>, "Error", {})
  ELSE Result(store, <<[svc |-> "file.readText", id |-> ScriptApi(o).id,
                        arg |-> o.resources[ScriptMetadata_getResource(o, aName)].filename]>>,
              "ok", {})

GM_getResourceURL(o, callers, store, aName) ==
  IF ScriptApi_apiLeakCheck(ScriptApi(o), callers) # 0
  THEN AccessViolation(ScriptApi(o), callers, "GM_getResourceURL", store)
  ELSE IF ScriptMetadata_getResource(o, aName) = 0
  THEN Result(store, <<>>, "Error", {})
  ELSE Result(store, <<[svc |-> "file.readBytes", id |-> ScriptApi(o).id,
                        arg |-> o.resources[ScriptMetadata_getResource(o, aName)].filename]>>,
              "ok", {})

(***************************************************************************)
(* The script API as a state machine: two installed scripts, and calls of  *)
(* their bound functions from any stack of callers.                        *)
(***************************************************************************)
InstalledRequire ==
  [kind |-> "require", name |-> <<>>, filename |-> <<"r", ".", "j", "s">>, mimetype |-> <<>>,
   downloadURL |-> [scheme |-> "http", path |-> <<"/", "r", ".", "j", "s">>]]
InstalledResource ==
  [kind |-> "resource", name |-> <<"i">>, filename |-> <<"i", ".", "p">>, mimetype |-> <<"t">>,
   downloadURL |-> [scheme |-> "http", path |-> <<"/", "i", ".", "p">>]]

ApiNames == {<<"a">>, <<"a", ".", "b">>}
ApiNamespaces == {<<"n">>, <<"n", "/">>}
\* the script installed first has a require and a resource
FirstSource ==
  [name |-> <<"a">>, namespace |-> <<"n">>, includes |-> <<>>, excludes |-> <<>>,
   requires |-> <<InstalledRequire>>, resources |-> <<InstalledResource>>]
ApiSources ==
  [name : ApiNames, namespace : ApiNamespaces, includes : {<<>>}, excludes : {<<>>},
   requires : {<<>>}, resources : {<<>>}]

Keys == {<<"k">>, <<"b", ".", "k">>}
Values == {[type |-> "string", s |-> "x", n |-> 0, int32 |-> FALSE],
           [type |-> "number", s |-> "", n |-> 1, int32 |-> TRUE],
           [type |-> "number", s |-> "", n |-> 1, int32 |-> FALSE]}
ResourceNames == {<<"i">>, <<"j">>}

PAGE == <<"h", "t", "t", "p", ":", "p">>
BROWSER == CHROME \o <<":", "b">>

\* the frames a caller can have: native code, code without a file name, the
\* browser's own code, a page's code, and the source files of the scripts
Frames ==
  {Unnamed(1), Unnamed(JAVASCRIPT), Frame(JAVASCRIPT, BROWSER), Frame(JAVASCRIPT, PAGE)}
    \cup {Frame(JAVASCRIPT, f) : f \in UNION {Range(ScriptMetadata_sourceFiles(objs[i])) : i \in Ids}}
Stacks == UNION {[1..n -> Frames] : n \in 0..MaxStack}

EmptyReg == [objs |-> <<>>, scripts |-> <<>>, doc |-> <<>>, trace |-> <<>>, fs |-> EmptyMap,
             prefs |-> EmptyMap, observers |-> <<>>]

\* a script made from its source and installed, as doInstall does
Installed(R, src) == Config_install(Script_fromSource(R, src, Null), Len(R.objs) + 1)

\* the state a bound call leaves
ApiCommit(s, apiName, arg, r) ==
  /\ ops < MaxCalls
  /\ ops' = ops + 1
  /\ prefs' = r.store
  /\ owner' = [f \in DOMAIN r.store |->
                 IF f \in DOMAIN prefs /\ r.store[f] = prefs[f] THEN owner[f] ELSE s]
  /\ effects' = r.effects
  /\ last' = [api |-> apiName, script |-> s, arg |-> arg, outcome |-> r.outcome,
              ret |-> r.ret]
  /\ stack' = <<>>     \* the call has returned or thrown: its callers unwind
  /\ UNCHANGED <<objs, scripts, doc, trace, fs, flows, observers>>

\* code running on some stack of callers is about to call a bound function
Enter ==
  \E c \in Stacks :
    /\ ops < MaxCalls
    /\ stack = <<>>
    /\ c # <<>>
    /\ stack' = c
    /\ effects' = <<>>
    /\ last' = NoCall
    /\ UNCHANGED <<objs, scripts, doc, trace, fs, flows, prefs, owner, ops, observers>>

Log == \E s \in Ids : ApiCommit(s, "GM_log", <<>>, GM_log(objs[s], stack, prefs, "m"))

GetValue == \E s \in Ids, k \in Keys :
              ApiCommit(s, "GM_getValue", k, GM_getValue(objs[s], stack, prefs, k, {}))

SetValue == \E s \in Ids, k \in Keys, v \in Values :
              ApiCommit(s, "GM_setValue", k, GM_setValue(objs[s], stack, prefs, k, v))

DeleteValue == \E s \in Ids, k \in Keys :
                 ApiCommit(s, "GM_deleteValue", k, GM_deleteValue(objs[s], stack, prefs, k))

ListValues == \E s \in Ids : ApiCommit(s, "GM_listValues", <<>>, GM_listValues(objs[s], stack, prefs))

OpenInTab == \E s \in Ids : ApiCommit(s, "GM_openInTab", <<>>, GM_openInTab(objs[s], stack, prefs, "u"))

XmlhttpRequest ==
  \E s \in Ids : ApiCommit(s, "GM_xmlhttpRequest", <<>>, GM_xmlhttpRequest(objs[s], stack, prefs, "d"))

RegisterMenuCommand ==
  \E s \in Ids :
    ApiCommit(s, "GM_registerMenuCommand", <<>>, GM_registerMenuCommand(objs[s], stack, prefs, "c"))

GetResourceText ==
  \E s \in Ids, r \in ResourceNames :
    ApiCommit(s, "GM_getResourceText", r, GM_getResourceText(objs[s], stack, prefs, r))

GetResourceURL ==
  \E s \in Ids, r \in ResourceNames :
    ApiCommit(s, "GM_getResourceURL", r, GM_getResourceURL(objs[s], stack, prefs, r))

InitApi ==
  \E a \in {FirstSource}, b \in ApiSources :
    /\ ~SameIdentity(a, b)
    /\ LET R == Installed(Installed(EmptyReg, a), b)
       IN /\ objs = R.objs
          /\ scripts = R.scripts
          /\ doc = R.doc
          /\ fs = R.fs
    /\ trace = <<>>
    /\ flows = EmptyMap
    /\ prefs = EmptyMap
    /\ owner = EmptyMap
    /\ stack = <<>>
    /\ effects = <<>>
    /\ last = NoCall
    /\ ops = 0
    /\ observers = <<>>

NextApi ==
  \/ Enter
  \/ Log
  \/ GetValue
  \/ SetValue
  \/ DeleteValue
  \/ ListValues
  \/ OpenInTab
  \/ XmlhttpRequest
  \/ RegisterMenuCommand
  \/ GetResourceText
  \/ GetResourceURL

SpecApi == InitApi /\ [][NextApi]_vars

(***************************************************************************)
(* Properties of the script API.                                           *)
(***************************************************************************)
\* a step that is a call of a bound function
IsCall == ops' = ops + 1

\* a frame of interpreted code whose source location is neither api.jsm, nor
\* under the privileged scheme, nor one of the source files of script s
Foreign(s, frame) ==
  /\ frame.language = JAVASCRIPT
  /\ frame.named
  /\ frame.filename # FILE
  /\ ~StartsWith(frame.filename, CHROME)
  /\ frame.filename \notin Range(ScriptMetadata_sourceFiles(objs[s]))

\* the only host service a refused call has used is the console's error log
OnlyLogged(eff) == \A i \in DOMAIN eff : eff[i].svc = "CONSOLE.logMessage"

C4_CheckBeforeAnyEffect ==
  [][(IsCall /\ \E i \in DOMAIN stack : Foreign(last'.script, stack[i]))
     => (prefs' = prefs /\ OnlyLogged(effects'))]_vars

\* C5: a call through one script's API leaves every value stored through the
\* other script's API as it is, and reads or enumerates only values stored
\* through its own API.
C5_Isolation ==
  [][IsCall =>
       LET s == last'.script
           branch == ScriptApi(objs[s]).prefs
       IN /\ \A f \in DOMAIN prefs :
               owner[f] # s => f \in DOMAIN prefs' /\ prefs'[f] = prefs[f]
          /\ (last'.api = "GM_getValue" /\ last'.ret # {}) => owner[branch \o last'.arg] = s
          /\ last'.api = "GM_listValues" => \A k \in last'.ret : owner[branch \o k] = s]_vars

(***************************************************************************)
(* Dependency download (ScriptRequire in src/src/chrome/content/           *)
(* newscript.js, Script.prototype.fetchDeps in src/src/modules/script.jsm, *)
(* GM_BrowserUI.installScript in src/unnamed/part_001).                    *)
(* A dependency is referred to by its kind and its place in the script's   *)
(* list.  The operations are functions of F, the registry's record R with  *)
(* one more field, flow: the remaining dependencies (the array deps that   *)
(* the callbacks share), the loads in flight, and the log of what has      *)
(* happened in this installation.                                          *)
(***************************************************************************)
MaxDeps == 2      \* @require and @resource lines of a downloaded script

Ref(kind, i) == [kind |-> kind, i |-> i]
DepOf(F, id, ref) ==
  IF ref.kind = "require" THEN F.objs[id].requires[ref.i] ELSE F.objs[id].resources[ref.i]

Logged(F, e) == [F EXCEPT !.flow.log = Append(@, e)]

\* ScriptRequire.prototype.DEFAULT_FILENAME, ScriptResource.prototype.DEFAULT_FILENAME
DEFAULT_FILENAME(dep) ==
  IF dep.kind = "require" THEN <<"r", "e", "q", "u", "i", "r", "e", ".", "j", "s">>
  ELSE <<"r", "e", "s", "o", "u", "r", "c", "e">>

\* replace(/^.*\/([^/]*)$/, "$1"): what follows the last "/"
RECURSIVE Basename(_)
Basename(s) ==
  IF \E i \in DOMAIN s : s[i] = "/" THEN Basename(Tail(s)) ELSE s

\* replace(/^([^?]*)\?.*$/, "$1"): what precedes the first "?"
RECURSIVE StripQuery(_)
StripQuery(s) ==
  IF s = <<>> \/ Head(s) = "?" THEN <<>> ELSE <<Head(s)>> \o StripQuery(Tail(s))

\* toFilename for an nsIURI argument
toFilename_uri(aOrigin, aDefault) == toFilename(StripQuery(Basename(aOrigin.path)), aDefault)

\* the name nsIFile.createUnique leaves the file with
UniqueName(file) ==
  IF file.n = 0 THEN file.base
  ELSE file.base \o <<"-", <<"0", "1", "2", "3", "4">>[file.n + 1]>>

SECURITY_EXCEPTION == "SecurityException: Request to local URI is forbidden"

\* _validateUri letting a file: dependency through whatever the script's origin
ScriptRequire_validateUri_anyOrigin(F, id, ref) ==
  DepOf(F, id, ref).downloadURL.scheme \in {"http", "https", "ftp", "file"}

\* _validateUri refusing only the file: dependencies of a script that is not local
ScriptRequire_validateUri_anyScheme(F, id, ref) ==
  DepOf(F, id, ref).downloadURL.scheme = "file" => F.objs[id].downloadURL.scheme = "file"

\* ScriptRequire.prototype._validateUri: TRUE for the uri, FALSE for false
ScriptRequire_validateUri(F, id, ref) ==
  LET uri == DepOf(F, id, ref).downloadURL
  IN CASE uri.scheme \in {"http", "https", "ftp"} -> TRUE
       [] uri.scheme = "file" -> F.objs[id].downloadURL.scheme = "file"
       [] OTHER -> FALSE

\* the success callback of GM_BrowserUI.installScript
installScript_onSuccess(F, id) ==
  Config_install(Logged(F, [ev |-> "onSuccess"]), id)

\* an error callback that goes on and installs the script
installScript_onError_installs(F, id, ref, status, statusText) ==
  Config_install(Logged(F, [ev |-> "onError", dep |-> ref, status |-> status,
                            text |-> statusText]), id)

\* the error callback of GM_BrowserUI.installScript
installScript_onError(F, id, ref, status, statusText) ==
  Logged(Logged(F, [ev |-> "onError", dep |-> ref, status |-> status, text |-> statusText]),
         [ev |-> "alert"])

\* ScriptRequire.prototype.fetch, up to the start of the load
ScriptRequire_fetch(F, id, ref, deps) ==
  LET F0   == Logged([F EXCEPT !.flow.deps = deps], [ev |-> "fetch", dep |-> ref])
      dep  == DepOf(F, id, ref)
      dir  == F.objs[id].directory
      file == File_createUniqueFile(F.fs[dir], toFilename_uri(dep.downloadURL,
                                                              DEFAULT_FILENAME(dep)))
      F1   == IF ref.kind = "require"
              THEN [F0 EXCEPT !.objs[id].requires[ref.i].filename = UniqueName(file)]
              ELSE [F0 EXCEPT !.objs[id].resources[ref.i].filename = UniqueName(file)]
      F2   == [F1 EXCEPT !.fs[dir] = @ \cup {file}, !.flow.inflight = @ \cup {ref}]
  IN IF ~ScriptRequire_validateUri(F, id, ref)
     THEN installScript_onError(F0, id, ref, -1, SECURITY_EXCEPTION)
     ELSE Logged(Logged(F2, [ev |-> "create", dep |-> ref, file |-> file]),
                 [ev |-> "load", dep |-> ref])

\* fetchDeps starting the load of the second dependency along with the first
Script_fetchDeps_together(F, id, deps) ==
  IF Len(deps) = 0 THEN installScript_onSuccess(F, id)
  ELSE IF Len(deps) = 1 THEN ScriptRequire_fetch(F, id, Head(deps), Tail(deps))
  ELSE ScriptRequire_fetch(ScriptRequire_fetch(F, id, Head(deps), Tail(deps)),
                           id, deps[2], Tail(Tail(deps)))

\* Script.prototype.fetchDeps
Script_fetchDeps(F, id, deps) ==
  IF Len(deps) = 0 THEN installScript_onSuccess(F, id)
  ELSE ScriptRequire_fetch(F, id, Head(deps), Tail(deps))

\* the completion callback that goes on to the next dependency whatever the status
ScriptRequire_fetch_onComplete_goesOn(F, id, ref, status, statusText) ==
  Script_fetchDeps(Logged([F EXCEPT !.flow.inflight = @ \ {ref}],
                          [ev |-> "complete", dep |-> ref, status |-> status,
                           text |-> statusText]), id, F.flow.deps)

\* the completion callback that returns on a failed load without calling onError
ScriptRequire_fetch_onComplete_silent(F, id, ref, status, statusText) ==
  LET F0 == Logged([F EXCEPT !.flow.inflight = @ \ {ref}],
                   [ev |-> "complete", dep |-> ref, status |-> status, text |-> statusText])
  IN IF status # 0 THEN F0
     ELSE Script_fetchDeps(F0, id, F0.flow.deps)

\* the completion callback that ScriptRequire.prototype.fetch hands to File.load
ScriptRequire_fetch_onComplete(F, id, ref, status, statusText) ==
  LET F0 == Logged([F EXCEPT !.flow.inflight = @ \ {ref}],
                   [ev |-> "complete", dep |-> ref, status |-> status, text |-> statusText])
  IN IF status # 0 THEN installScript_onError(F0, id, ref, status, statusText)
     ELSE Script_fetchDeps(F0, id, F0.flow.deps)

\* GM_BrowserUI.installScript
GM_BrowserUI_installScript(F, id) ==
  LET o == F.objs[id]
  IN Script_fetchDeps([F EXCEPT !.flow = [deps |-> <<>>, inflight |-> {}, log |-> <<>>]], id,
                      [i \in DOMAIN o.requires |-> Ref("require", i)]
                        \o [i \in DOMAIN o.resources |-> Ref("resource", i)])

(***************************************************************************)
(* Installation of a downloaded script as a state machine: the script has  *)
(* been downloaded by GM_BrowserUI.downloadScript (Script.fromUri without  *)
(* its dependencies), the registry holds no script or one script.          *)
(***************************************************************************)
Schemes == {"http", "https", "ftp", "file", "data"}
Paths == {<<"/", "r", ".", "j", "s">>, <<"/">>}
DepUrls == [scheme : Schemes, path : Paths]
Origins == [scheme : {"http", "file"}, path : {<<"/", "a", ".", "u", "s", "e", "r", ".", "j", "s">>}]
Completions == {[status |-> 0, text |-> "OK"], [status |-> 404, text |-> "Not Found"]}

\* a dependency as ScriptRequire.prototype.parse and ScriptResource.prototype.parse leave it
Dep(kind, name, url) ==
  [kind |-> kind, name |-> name, filename |-> <<>>, mimetype |-> <<>>, downloadURL |-> url]

\* the resources of a script have different names
ResourceName(i) == [j \in 1..i |-> "i"]

DownloadedSources ==
  UNION {UNION {
    {[name |-> <<"a">>, namespace |-> <<"n">>, includes |-> <<>>, excludes |-> <<>>,
      requires  |-> [i \in 1..nq |-> Dep("require", <<>>, q[i])],
      resources |-> [i \in 1..nr |-> Dep("resource", ResourceName(i), r[i])]]
       : q \in [1..nq -> DepUrls], r \in [1..nr -> DepUrls]}
    : nr \in 0..(MaxDeps - nq)} : nq \in 0..MaxDeps}

NoFlow == [deps |-> <<>>, inflight |-> {}, log |-> <<>>]
WithFlow(flow) == [objs |-> objs, scripts |-> scripts, doc |-> doc, trace |-> <<>>, fs |-> fs,
                   prefs |-> prefs, observers |-> observers, flow |-> flow]

\* the state a step of an installation leaves
FetchCommit(id, F) ==
  /\ objs' = F.objs
  /\ scripts' = F.scripts
  /\ doc' = F.doc
  /\ trace' = F.trace
  /\ fs' = F.fs
  /\ prefs' = F.prefs
  /\ flows' = [i \in DOMAIN flows \cup {id} |-> IF i = id THEN F.flow ELSE flows[i]]
  /\ UNCHANGED <<owner, stack, effects, last, ops, observers>>

\* the user accepts the installation of a downloaded script
InstallScript ==
  \E id \in Ids :
    /\ id \notin DOMAIN flows
    /\ ~objs[id].config
    /\ FetchCommit(id, GM_BrowserUI_installScript(WithFlow(NoFlow), id))

\* the load of a dependency ends and File.load calls onComplete
LoadComplete ==
  \E id \in DOMAIN flows :
    \E ref \in flows[id].inflight, c \in Completions :
      FetchCommit(id, ScriptRequire_fetch_onComplete(WithFlow(flows[id]), id, ref,
                                                     c.status, c.text))

InitFetch ==
  \E R0 \in {EmptyReg} \cup {Installed(EmptyReg, src) : src \in Sources} :
    \E src \in DownloadedSources, uri \in Origins :
      LET R == Script_fromSource(R0, src, uri)
      IN /\ objs = R.objs
         /\ scripts = R.scripts
         /\ doc = R.doc
         /\ fs = R.fs
         /\ trace = <<>>
         /\ flows = EmptyMap
         /\ prefs = EmptyMap
         /\ owner = EmptyMap
         /\ stack = <<>>
         /\ effects = <<>>
         /\ last = NoCall
         /\ ops = 0
         /\ observers = <<>>

NextFetch ==
  \/ InstallScript
  \/ LoadComplete

SpecFetch == InitFetch /\ [][NextFetch]_vars

(***************************************************************************)
(* Properties of the installation of a downloaded script.                  *)
(***************************************************************************)
EventsOf(id) == flows[id].log
DepScheme(id, ref) == DepOf([objs |-> objs], id, ref).downloadURL.scheme
OriginScheme(id) == objs[id].downloadURL.scheme
IsEvent(e, kinds) == e.ev \in kinds
IsRefusal(e, ref) ==
  /\ e.ev = "onError"
  /\ e.dep = ref
  /\ e.status = -1
  /\ e.text = SECURITY_EXCEPTION

\* C6: a file: dependency gets a file and a load only when the script itself
\* came from a file: URI; when the script came from elsewhere, the fetch of
\* the file: dependency ends at once in onError and no load of it is started.
C6_FileDependencyNeedsFileOrigin ==
  \A id \in DOMAIN flows :
    \A i \in DOMAIN EventsOf(id) :
      LET e == EventsOf(id)[i]
      IN /\ (IsEvent(e, {"create", "load", "complete"}) /\ DepScheme(id, e.dep) = "file")
              => OriginScheme(id) = "file"
         /\ (IsEvent(e, {"fetch"}) /\ DepScheme(id, e.dep) = "file"
               /\ OriginScheme(id) # "file")
              => /\ i < Len(EventsOf(id))
                 /\ EventsOf(id)[i + 1].ev = "onError"
                 /\ EventsOf(id)[i + 1].dep = e.dep
                 /\ flows[id].inflight = {}

\* the file: dependency of a script from http: has been refused, after the
\* load of another dependency
C6_Witness ==
  \E id \in DOMAIN flows :
    \E i \in DOMAIN EventsOf(id) :
      /\ IsEvent(EventsOf(id)[i], {"fetch"})
      /\ DepScheme(id, EventsOf(id)[i].dep) = "file"
      /\ OriginScheme(id) = "http"
      /\ i > 1
      /\ i < Len(EventsOf(id))
      /\ EventsOf(id)[i + 1].ev = "onError"

\* C7: the fetch of a dependency whose scheme is not http, https or ftp, and
\* which is not a file: dependency of a script from file:, calls onError with
\* -1 and the security message as its first act; no file is ever created for
\* it and no load of it is ever started: the script's directory holds the
\* script's file and the files of the other dependencies only.
C7_OtherSchemeRejectedFirst ==
  \A id \in DOMAIN flows :
    /\ \A i \in DOMAIN EventsOf(id) :
         LET e == EventsOf(id)[i]
         IN (/\ IsEvent(e, {"fetch"})
             /\ DepScheme(id, e.dep) \notin {"http", "https", "ftp"}
             /\ ~(DepScheme(id, e.dep) = "file" /\ OriginScheme(id) = "file"))
            => /\ i < Len(EventsOf(id))
               /\ IsRefusal(EventsOf(id)[i + 1], e.dep)
               /\ \A k \in DOMAIN EventsOf(id) :
                    IsEvent(EventsOf(id)[k], {"create", "load"}) => EventsOf(id)[k].dep # e.dep
    /\ objs[id].directory \in DOMAIN fs =>
         fs[objs[id].directory] =
           {[base |-> objs[id].filename, n |-> 0]}
             \cup {EventsOf(id)[k].file :
                     k \in {j \in DOMAIN EventsOf(id) : EventsOf(id)[j].ev = "create"}}

\* a data: dependency has been refused after another dependency was loaded
C7_Witness ==
  \E id \in DOMAIN flows :
    \E i \in DOMAIN EventsOf(id) :
      /\ IsEvent(EventsOf(id)[i], {"fetch"})
      /\ DepScheme(id, EventsOf(id)[i].dep) = "data"
      /\ i > 1
      /\ EventsOf(id)[i - 1].ev = "complete"
      /\ i < Len(EventsOf(id))
      /\ IsRefusal(EventsOf(id)[i + 1], EventsOf(id)[i].dep)

\* the loads started and not yet ended after the first i events
InFlightAfter(id, i) ==
  Cardinality({j \in 1..i : EventsOf(id)[j].ev = "load"})
    - Cardinality({j \in 1..i : EventsOf(id)[j].ev = "complete"})

\* C8: at every moment of an installation at most one load is in flight, and
\* the fetch of a dependency other than the first begins only when the load
\* of the dependency before it has ended.
C8_OneLoadAtATime ==
  \A id \in DOMAIN flows :
    /\ Cardinality(flows[id].inflight) <= 1
    /\ \A i \in DOMAIN EventsOf(id) :
         /\ InFlightAfter(id, i) \in {0, 1}
         /\ (IsEvent(EventsOf(id)[i], {"fetch"}) /\ i > 1)
              => (EventsOf(id)[i - 1].ev = "complete" /\ InFlightAfter(id, i) = 0)

\* the second dependency is being loaded, the first one has been
C8_Witness ==
  \E id \in DOMAIN flows :
    /\ flows[id].inflight # {}
    /\ Cardinality({j \in DOMAIN EventsOf(id) : EventsOf(id)[j].ev = "load"}) = 2
    /\ Cardinality({j \in DOMAIN EventsOf(id) : EventsOf(id)[j].ev = "complete"}) = 1

\* C9: when the load of a dependency ends with a status other than 0, or the
\* dependency is refused, onError is called next with that dependency, that
\* status and that text, and from then on no dependency is fetched, no file
\* created, no load started and onSuccess not called.
C9_FailureReportedAndFinal ==
  \A id \in DOMAIN flows :
    \A i \in DOMAIN EventsOf(id) :
      LET e == EventsOf(id)[i]
      IN /\ (IsEvent(e, {"complete"}) /\ e.status # 0)
              => /\ i < Len(EventsOf(id))
                 /\ EventsOf(id)[i + 1] = [ev |-> "onError", dep |-> e.dep,
                                           status |-> e.status, text |-> e.text]
         /\ IsEvent(e, {"onError"})
              => /\ i > 1
                 /\ EventsOf(id)[i - 1].dep = e.dep
                 /\ flows[id].inflight = {}
                 /\ \A k \in (i + 1)..Len(EventsOf(id)) :
                      ~IsEvent(EventsOf(id)[k], {"fetch", "create", "load", "complete",
                                                 "onSuccess", "onError"})

\* the load of the first of two dependencies has failed: the second was never fetched
C9_Witness ==
  \E id \in DOMAIN flows :
    /\ flows[id].deps # <<>>
    /\ \E i \in DOMAIN EventsOf(id) :
         /\ IsEvent(EventsOf(id)[i], {"complete"})
         /\ EventsOf(id)[i].status = 404
         /\ EventsOf(id)[Len(EventsOf(id))].ev = "alert"
    /\ Cardinality({j \in DOMAIN EventsOf(id) : EventsOf(id)[j].ev = "fetch"}) = 1

Succeeded(flow) == \E i \in DOMAIN flow.log : flow.log[i].ev = "onSuccess"
Failed(flow) == \E i \in DOMAIN flow.log : flow.log[i].ev = "onError"

\* C10: a step of an installation in which onSuccess has not been called,
\* and so every step of an installation that fails, leaves the registry's
\* collection and its document as they were, and the script is not in the
\* collection.
C10_FailedInstallLeavesRegistry ==
  [][\A id \in DOMAIN flows' :
       ~Succeeded(flows'[id])
         => /\ scripts' = scripts
            /\ doc' = doc
            /\ \A i \in DOMAIN scripts' : scripts'[i] # id]_vars

\* an installation has failed while the registry tracks a script of the same identity
C10_Witness ==
  \E id \in DOMAIN flows :
    /\ Failed(flows[id])
    /\ scripts # <<>>
    /\ doc # <<>>
    /\ \E i \in DOMAIN scripts : SameIdentity(objs[scripts[i]], objs[id])

(***************************************************************************)
(* Properties of the registry's operations.                                *)
(***************************************************************************)
\* the last thing the operation of this step did
LastEvent(t) == t[Len(t)]
\* the step is an operation that ended by notifying this event about script id
Notified(t, event, id) ==
  /\ t # <<>>
  /\ IsNotify(LastEvent(t))
  /\ LastEvent(t).event = event
  /\ LastEvent(t).script = id
Tracked(id) == \E i \in DOMAIN scripts : scripts[i] = id
Serialized == [i \in DOMAIN scripts |-> Script_toXml(objs[scripts[i]])]

\* C11: when script b is installed while another script a of the same
\* (namespace, name) is tracked, then afterwards b is tracked, a is not, b is
\* the only tracked script of that identity, and the document is the
\* serialization of that collection: it has an entry for b and none for a.
C11_InstallReplaces ==
  [][\A a, b \in Ids :
       (/\ a # b
        /\ Tracked(a)
        /\ SameIdentity(objs[a], objs[b])
        /\ Notified(trace', "install", b))
       => (/\ Tracked(b)'
           /\ ~Tracked(a)'
           /\ Cardinality({i \in DOMAIN scripts' : SameIdentity(objs'[scripts'[i]], objs[b])}) = 1
           /\ doc' = Serialized'
           /\ Cardinality({i \in DOMAIN doc' :
                             doc'[i] = Script_toXml(objs'[b])}) = 1
           /\ Len(doc') = Len(scripts'))]_vars

\* b has replaced a, which had the same identity
C11_Witness ==
  /\ Len(scripts) = 1
  /\ Len(trace) = 4
  /\ Notified(trace, "install", scripts[1])
  /\ IsNotify(trace[2])
  /\ trace[2].event = "uninstall"
  /\ trace[2].script # scripts[1]
  /\ SameIdentity(objs[trace[2].script], objs[scripts[1]])

\* the step is the operation whose outcome is R
StepIs(R) ==
  /\ objs' = R.objs
  /\ scripts' = R.scripts
  /\ doc' = R.doc
  /\ trace' = R.trace
  /\ fs' = R.fs
  /\ prefs' = R.prefs
  /\ observers' = R.observers
  /\ ops' = ops + 1
\* the content of the script's storage directory, if it has one
Storage(id) == {fs[d] : d \in {objs[id].directory} \cap DOMAIN fs}

\* C12: when install(id) has just completed and install(id) is called again
\* with the same script object, the tracked collection, the document and the
\* script's storage are after the second call what they were after the first.
C12_InstallTwiceIsOnce ==
  [][\A id \in Ids :
       (/\ Notified(trace, "install", id)
        /\ StepIs(Config_install(Reg, id)))
       => (/\ scripts' = scripts
           /\ doc' = doc
           /\ Storage(id)' = Storage(id)
           /\ Storage(id)' # {})]_vars

\* what move may be handed: every offset and every script object
Destinations == {[offset |-> d] : d \in Offsets} \cup {[script |-> t] : t \in Ids}
\* the index move resolves its destination to (0 when there is none)
ResolvedTarget(id, destination) ==
  IF "offset" \in DOMAIN destination
  THEN Min(Len(scripts), Max(1, IndexOf(scripts, id) + destination.offset))
  ELSE IndexOf(scripts, destination.script)
Persisted(t) == \E i \in DOMAIN t : t[i].kind = "save"
ObserversNotified(t) == \E i \in DOMAIN t : t[i].kind = "notify"

\* C13: move(script, destination) with a script that is not tracked, or with
\* a destination that resolves to the script's current index, leaves the
\* ordering as it was, persists nothing and notifies no observer.
C13_MoveNoOp ==
  [][\A id \in Ids : \A destination \in Destinations :
       (/\ StepIs(Config_move(Reg, id, destination))
        /\ \/ ~Tracked(id)
           \/ ResolvedTarget(id, destination) = IndexOf(scripts, id))
       => (/\ scripts' = scripts
           /\ ~Persisted(trace')
           /\ ~ObserversNotified(trace'))]_vars

\* C14: a tracked script at (JS) index i of a collection of n scripts, moved
\* by the offset d, ends at index max(0, min(n - 1, i + d)); moved by -1 from
\* index 0 it leaves the ordering as it was.
C14_MoveByOffsetClamps ==
  [][\A id \in Ids : \A d \in Offsets :
       (/\ Tracked(id)
        /\ StepIs(Config_move(Reg, id, [offset |-> d])))
       => LET i == IndexOf(scripts, id) - 1
              n == Len(scripts)
          IN /\ IndexOf(scripts', id) - 1 = Max(0, Min(n - 1, i + d))
             /\ (i = 0 /\ d = 0 - 1) => scripts' = scripts]_vars

\* a script has been moved to the end of a collection of two
C14_Witness ==
  /\ Len(scripts) = 2
  /\ Notified(trace, "move", scripts[2])
  /\ LastEvent(trace).data = 1

\* C15: for two distinct tracked scripts s and t, after move(s, t) the script
\* s is at the index t had immediately before the call.
C15_MoveToScript ==
  [][\A s, t \in Ids :
       (/\ s # t
        /\ Tracked(s)
        /\ Tracked(t)
        /\ StepIs(Config_move(Reg, s, [script |-> t])))
       => IndexOf(scripts', s) = IndexOf(scripts, t)]_vars

\* a script has been moved to the front of a collection of two, before the other
C15_Witness ==
  /\ Len(scripts) = 2
  /\ Notified(trace, "move", scripts[1])
  /\ LastEvent(trace).data = 0
  /\ scripts[2] # scripts[1]

\* some test function makes getMatchingScripts return the script
Matching(id) ==
  \E testFunc \in TestFuncs :
    \E i \in DOMAIN Config_getMatchingScripts(Reg, testFunc) :
      Config_getMatchingScripts(Reg, testFunc)[i] = id

\* C16: uninstall(script) of a tracked script takes it out of what
\* getMatchingScripts returns for every test function, and a script that
\* getMatchingScripts does not return only comes back into its results by a
\* step that installs it: so after the uninstall it is never returned again
\* in any later state reached without installing it again.
C16_UninstalledStaysOut ==
  [][\A id \in Ids :
       /\ (/\ Tracked(id)
           /\ \E p \in BOOLEAN : StepIs(Config_uninstall(Reg, id, p)))
          => ~Matching(id)'
       /\ (~Matching(id) /\ Matching(id)') => Notified(trace', "install", id)]_vars

\* a script that was installed has been uninstalled and is not returned
C16_Witness ==
  \E id \in Ids :
    /\ Notified(trace, "uninstall", id)
    /\ objs[id].config
    /\ objs[id].directory \notin DOMAIN fs
    /\ ~Matching(id)
    /\ scripts # <<>>

\* C17: uninstall(script, purgePreferences) of a tracked script takes exactly
\* that script out of the collection, the others staying in their order,
\* deletes its storage directory and no other, and with purgePreferences
\* false leaves every preference value as it was.
C17_UninstallRemovesExactlyThat ==
  [][\A id \in Ids : \A purgePreferences \in BOOLEAN :
       (/\ Tracked(id)
        /\ StepIs(Config_uninstall(Reg, id, purgePreferences)))
       => (/\ scripts' = RemoveAt(scripts, IndexOf(scripts, id))
           /\ fs' = FsRemove(fs, objs[id].directory)
           /\ objs[id].directory \in DOMAIN fs
           /\ ~purgePreferences => prefs' = prefs)]_vars

\* a script that had stored a value has been uninstalled: another script is
\* still tracked, the directory is gone and the value is still stored
C17_Witness ==
  \E id \in Ids :
    /\ Notified(trace, "uninstall", id)
    /\ ~Tracked(id)
    /\ scripts # <<>>
    /\ objs[id].directory \notin DOMAIN fs
    /\ ScriptValue(objs[id], StoredKey) \in DOMAIN prefs

\* C18: after every mutating operation (install, uninstall, move, every edit
\* of the metadata), completed or failed, the persisted document is the
\* serialization of the complete current collection.
C18_DocumentIsCollection == doc = Serialized

\* a tracked script has been disabled and the document says so
C18_Witness ==
  \E i \in DOMAIN scripts :
    /\ Notified(trace, "edit-enabled", scripts[i])
    /\ ~objs[scripts[i]].enabled
    /\ Len(doc) = Len(scripts)
    /\ doc[i].enabled = "false"

(***************************************************************************)
(* Observers of a registry that tracks two scripts: they are registered    *)
(* and removed, for every script or for one, between changes to the        *)
(* scripts.                                                                *)
(***************************************************************************)
MaxObservers == 2
Observers == {"o1", "o2"}
\* where an observer is registered: 0 for the registry, else the script
Targets == {0} \cup Ids
ObserversOf(t) == IF t = 0 THEN observers ELSE objs[t].observers

AddObserver ==
  \E observer \in Observers, t \in Targets :
    /\ Len(ObserversOf(t)) < MaxObservers
    /\ Commit(Config_addObserver(Reg, observer, t))

RemoveObserver ==
  \E observer \in Observers, t \in Targets :
    Commit(Config_removeObserver(Reg, observer, t))

InitObs ==
  \E a, b \in Sources :
    /\ ~SameIdentity(a, b)
    /\ LET R == Installed(Installed(EmptyReg, a), b)
       IN /\ objs = R.objs
          /\ scripts = R.scripts
          /\ doc = R.doc
          /\ fs = R.fs
    /\ trace = <<>>
    /\ flows = EmptyMap
    /\ prefs = EmptyMap
    /\ owner = EmptyMap
    /\ stack = <<>>
    /\ effects = <<>>
    /\ last = NoCall
    /\ ops = 0
    /\ observers = <<>>

NextObs ==
  \/ AddObserver
  \/ RemoveObserver
  \/ SetEnabled
  \/ Move
  \/ Uninstall

SpecObs == InitObs /\ [][NextObs]_vars

\* C19: when a change about a script is notified, every observer registered
\* for the registry and every observer registered on that script is called
\* with the script, the event and the payload of the change, and no observer
\* that is registered only on another script is called.
C19_NotifiesGlobalAndOwn ==
  \A i \in DOMAIN trace :
    IsNotify(trace[i]) =>
      LET e        == trace[i]
          called   == {e.calls[j].observer : j \in DOMAIN e.calls}
          expected == Range(observers) \cup Range(objs[e.script].observers)
      IN /\ called = expected
         /\ \A j \in DOMAIN e.calls :
              /\ e.calls[j].script = e.script
              /\ e.calls[j].event = e.event
              /\ e.calls[j].data = e.data

\* a change was notified to an observer of the registry and to one of the
\* script, while the other script had an observer of its own that was not called
C19_Witness ==
  \E i \in DOMAIN trace :
    /\ IsNotify(trace[i])
    /\ observers # <<>>
    /\ objs[trace[i].script].observers # <<>>
    /\ Len(trace[i].calls) >= 2
    /\ \E t \in Ids :
         /\ t # trace[i].script
         /\ \E o \in Range(objs[t].observers) :
              \A j \in DOMAIN trace[i].calls : trace[i].calls[j].observer # o

\* C20: removeObserver with an observer that is not in the list it targets
\* (the registry's own, or the given script's) fails with the error
\* "Observer not found" and leaves every registration as it was.
C20_RemoveUnknownObserverFails ==
  [][\A observer \in Observers : \A t \in Targets :
       (/\ IndexOf(ObserversOf(t), observer) = 0
        /\ StepIs(Config_removeObserver(Reg, observer, t)))
       => (/\ trace' # <<>>
           /\ LastEvent(trace').kind = "throw"
           /\ LastEvent(trace').what = "Observer not found"
           /\ observers' = observers
           /\ \A id \in Ids : objs'[id].observers = objs[id].observers)]_vars

\* the removal of an observer has failed while observers are registered for
\* the registry and on a script
C20_Witness ==
  /\ trace # <<>>
  /\ LastEvent(trace).kind = "throw"
  /\ LastEvent(trace).what = "Observer not found"
  /\ observers # <<>>
  /\ \E id \in Ids : objs[id].observers # <<>>

\* C30: parsing a source whose header declares two @resource lines of the
\* same name fails with the duplicate resource error, and nothing comes of
\* it: no script object, no directory, and the registry's collection and
\* document are as they were.
C30_DuplicateResourceRefused ==
  [][\A src \in Sources \cup {DuplicateSource} :
       (/\ DuplicateResource(src.resources)
        /\ StepIs(Script_fromSource(Reg, src, Null)))
       => (/\ trace' # <<>>
           /\ LastEvent(trace').kind = "throw"
           /\ LastEvent(trace').what = "Duplicate resource name"
           /\ scripts' = scripts
           /\ doc' = doc
           /\ objs' = objs
           /\ fs' = fs)]_vars

\* the parse has failed on a duplicate resource while the registry tracks a script
C30_Witness ==
  /\ trace # <<>>
  /\ LastEvent(trace).kind = "throw"
  /\ LastEvent(trace).what = "Duplicate resource name"
  /\ scripts # <<>>

\* C23: the metadata produced by parsing a source, and the metadata of every
\* script loaded from the persisted document, has at least one include.
C23_IncludesNeverEmpty ==
  [][/\ \A src \in Sources :
          StepIs(Script_fromSource(Reg, src, Null))
          => objs'[Len(objs')].includes # <<>>
     /\ StepIs(Config_loadFromXml(Reg))
          => \A id \in DOMAIN objs' : objs'[id].includes # <<>>]_vars

\* a frame of interpreted code located in one of the source files of script s
OwnFrame(s, frame) ==
  /\ frame.language = JAVASCRIPT
  /\ frame.named
  /\ frame.filename \in Range(ScriptMetadata_sourceFiles(objs[s]))

MaxPageOps == 2   \* page loads and edits of the registry in one run of the pages

\* the pattern a mask compiles to, tried on what is left of the URL
RECURSIVE GlobTest(_, _)
GlobTest(mask, url) ==
  IF mask = <<>> THEN url = <<>>
  ELSE IF Head(mask) = "*"
  THEN GlobTest(Tail(mask), url) \/ (url # <<>> /\ GlobTest(mask, Tail(url)))
  ELSE url # <<>> /\ Head(url) = Head(mask) /\ GlobTest(Tail(mask), Tail(url))

\* convert2RegExp(mask).test(url)
convert2RegExp_test(mask, url) == mask # <<>> /\ GlobTest(mask, url)

\* rules.some(match) of isRunnable
Some(rules, url) == \E i \in DOMAIN rules : convert2RegExp_test(rules[i], url)

\* isRunnable looking at the includes alone
Script_isRunnable_includesOnly(o, url) == Some(o.includes, url)

\* Script.prototype.isRunnable
Script_isRunnable(o, url) == Some(o.includes, url) /\ ~Some(o.excludes, url)

\* the test of domContentLoaded without the enabled flag
domContentLoaded_test_anyState(o, href) == Script_isRunnable(o, href)

\* function(script) { return script.enabled && script.matchesURL(href); }
domContentLoaded_test(o, href) == o.enabled /\ Script_isRunnable(o, href)

\* what the evaluation of a source file can end with: nothing thrown, a value
\* with properties thrown (an Error, a string), or null thrown
ThrownValues == {"none", "Error", "null"}

Ev(kind, id, file, sandbox, api, thrown) ==
  [kind |-> kind, script |-> id, file |-> file, sandbox |-> sandbox, api |-> api,
   thrown |-> thrown]

\* Script.prototype._inject: the file is evaluated; what it throws is caught
\* and logged as new Error(err.message, ...), and reading err.message of a
\* thrown null raises a TypeError in the catch block, which leaves _inject
Script__inject(id, file, sandbox, thrown) ==
  LET eval == Ev("evalInSandbox", id, file, sandbox, <<>>, thrown)
  IN CASE thrown = "none" -> [events |-> <<eval>>, threw |-> FALSE]
       [] thrown = "Error" ->
            [events |-> <<eval, Ev("logError", id, file, sandbox, <<>>, thrown)>>,
             threw |-> FALSE]
       [] thrown = "null" -> [events |-> <<eval>>, threw |-> TRUE]

\* the files of inject with the script's own source first
Script_injectSources_ownFirst(o) ==
  <<File_uri(o.directory, o.filename)>>
    \o [i \in DOMAIN o.requires |-> File_uri(o.directory, o.requires[i].filename)]

\* the files inject evaluates: for each(var require in this.meta.requires),
\* then this
Script_injectSources(o) ==
  [i \in DOMAIN o.requires |-> File_uri(o.directory, o.requires[i].filename)]
    \o <<File_uri(o.directory, o.filename)>>

\* the loop of inject from file i on; an exception leaving _inject ends it
RECURSIVE Script_injectFrom(_, _, _, _, _)
Script_injectFrom(id, files, i, sandbox, thrown) ==
  IF i > Len(files) THEN [events |-> <<>>, threw |-> FALSE]
  ELSE LET one == Script__inject(id, files[i], sandbox, thrown[i])
       IN IF one.threw THEN one
          ELSE LET rest == Script_injectFrom(id, files, i + 1, sandbox, thrown)
               IN [events |-> one.events \o rest.events, threw |-> rest.threw]

\* an API object made for every injection
Script_api_alwaysNew(o, fresh) == fresh

\* if (!this._api) this._api = new ScriptApi(this)
Script_api(o, fresh) == IF o.api = <<>> THEN fresh ELSE o.api

\* Script.prototype.inject; fresh is the identity of what this call constructs
Script_inject(o, id, fresh, thrown) ==
  LET api == Script_api(o, fresh)
      run == Script_injectFrom(id, Script_injectSources(o), 1, fresh, thrown)
  IN [api    |-> api,
      events |-> (IF api = o.api THEN <<>>
                  ELSE <<Ev("ScriptApi", id, <<>>, <<>>, api, "none")>>)
                   \o <<Ev("sandbox", id, <<>>, fresh, api, "none")>>
                   \o run.events,
      threw  |-> run.threw]

\* the loop of domContentLoaded from the i-th matching script on; an exception
\* leaving inject ends it
RECURSIVE domContentLoaded_from(_, _, _, _, _)
domContentLoaded_from(objs_, ids, i, load, thrown) ==
  IF i > Len(ids) THEN [objs |-> objs_, events |-> <<>>, threw |-> FALSE]
  ELSE LET id    == ids[i]
           one   == Script_inject(objs_[id], id, <<load, id>>, thrown[id])
           objs1 == [objs_ EXCEPT ![id].api = one.api]
       IN IF one.threw THEN [objs |-> objs1, events |-> one.events, threw |-> TRUE]
          ELSE LET rest == domContentLoaded_from(objs1, ids, i + 1, load, thrown)
               IN [objs |-> rest.objs, events |-> one.events \o rest.events,
                   threw |-> rest.threw]

\* WebmonkeyService.prototype.domContentLoaded
domContentLoaded(R, href, load, thrown) ==
  LET keep(id) == domContentLoaded_test(R.objs[id], href)
  IN domContentLoaded_from(R.objs, SelectSeq(R.scripts, keep), 1, load, thrown)

Urls == {<<"h">>, <<"h", "x">>, <<"g">>}

\* for each script, what each of its source files throws when it is evaluated;
\* a script that is not injected at href and a file behind one that throws
\* null are not evaluated, so they are given one value only
ThrownOf(id, href) ==
  LET files == DOMAIN Script_injectSources(objs[id])
  IN IF (\E i \in DOMAIN scripts : scripts[i] = id) /\ domContentLoaded_test(objs[id], href)
     THEN {t \in [files -> ThrownValues] :
             \A i, j \in files : i < j /\ t[i] = "null" => t[j] = "none"}
     ELSE {[i \in files |-> "none"]}
Thrown(href) ==
  LET of == [id \in Ids |-> ThrownOf(id, href)]
  IN {t \in [Ids -> UNION {of[id] : id \in Ids}] : \A id \in Ids : t[id] \in of[id]}

\* a page is loaded at href; what its source files throw is the page's and the
\* scripts' business
DomContentLoaded ==
  \E href \in Urls : \E thrown \in Thrown(href) :
    LET r == domContentLoaded(Reg, href, ops + 1, thrown)
    IN /\ ops < MaxPageOps
       /\ ops' = ops + 1
       /\ objs' = r.objs
       /\ effects' = r.events
       /\ last' = [api |-> "domContentLoaded", href |-> href, at |-> ops + 1,
                   outcome |-> IF r.threw THEN "threw" ELSE "returned"]
       /\ trace' = <<>>
       /\ UNCHANGED <<scripts, doc, fs, flows, prefs, owner, stack, observers>>

\* script.isRunnable(url) is asked
IsRunnable ==
  \E id \in Ids, url \in Urls :
    /\ last' = [api |-> "isRunnable", script |-> id, href |-> url,
                outcome |-> Script_isRunnable(objs[id], url)]
    /\ UNCHANGED <<objs, scripts, doc, trace, fs, flows, prefs, owner, stack, effects,
                   ops, observers>>

SecondRequire ==
  [kind |-> "require", name |-> <<>>, filename |-> <<"s", ".", "j", "s">>, mimetype |-> <<>>,
   downloadURL |-> [scheme |-> "http", path |-> <<"/", "s", ".", "j", "s">>]]

\* the script installed first has two requires, the second has none
InjectSources ==
  [name : {<<"a">>}, namespace : {<<"n">>}, includes : {<<>>, <<<<"h", "*">>>>},
   excludes : {<<>>}, requires : {<<InstalledRequire, SecondRequire>>},
   resources : {<<>>}]
    \cup [name : {<<"b">>}, namespace : {<<"n">>}, includes : {<<<<"g">>>>},
          excludes : {<<>>}, requires : {<<>>}, resources : {<<>>}]

InitInject ==
  \E a, b \in InjectSources :
    /\ a.name = <<"a">>
    /\ b.name = <<"b">>
    /\ LET R == Installed(Installed(EmptyReg, a), b)
       IN /\ objs = R.objs
          /\ scripts = R.scripts
          /\ doc = R.doc
          /\ fs = R.fs
    /\ trace = <<>>
    /\ flows = EmptyMap
    /\ prefs = EmptyMap
    /\ owner = EmptyMap
    /\ stack = <<>>
    /\ effects = <<>>
    /\ last = NoCall
    /\ ops = 0
    /\ observers = <<>>

NextInject ==
  \/ DomContentLoaded
  \/ ops < MaxPageOps /\ SetEnabled
  \/ ops < MaxPageOps /\ Uninstall
  \/ ops < MaxPageOps /\ AddExclude
  \/ ops < MaxPageOps /\ RemoveIncludeAt

SpecInject == InitInject /\ [][NextInject]_vars

\* the same scripts, their rules edited, and asked whether they can run
NextRunnable ==
  \/ IsRunnable
  \/ ops < MaxPageOps /\ AddInclude
  \/ ops < MaxPageOps /\ AddExclude
  \/ ops < MaxPageOps /\ RemoveIncludeAt
  \/ ops < MaxPageOps /\ RemoveExcludeAt

SpecRunnable == InitInject /\ [][NextRunnable]_vars

\* C22: isRunnable(url) answers true exactly when at least one include mask
\* of the script matches url and no exclude mask matches it: a matching
\* exclude makes the answer false whatever the includes are, and a script
\* without includes is never runnable.
C22_RunnableIffIncludedAndNotExcluded ==
  [][(last'.api = "isRunnable" /\ UNCHANGED <<objs, ops>>) =>
       LET o        == objs[last'.script]
           included == \E i \in DOMAIN o.includes :
                         convert2RegExp_test(o.includes[i], last'.href)
           excluded == \E i \in DOMAIN o.excludes :
                         convert2RegExp_test(o.excludes[i], last'.href)
       IN /\ last'.outcome = (included /\ ~excluded)
          /\ excluded => last'.outcome = FALSE
          /\ o.includes = <<>> => last'.outcome = FALSE]_vars

\* a script is asked about a URL that one of its includes and one of its
\* excludes match, and answers that it cannot run there
C22_Witness ==
  /\ last.api = "isRunnable"
  /\ last.outcome = FALSE
  /\ \E i \in DOMAIN objs[last.script].includes :
       convert2RegExp_test(objs[last.script].includes[i], last.href)
  /\ \E i \in DOMAIN objs[last.script].excludes :
       convert2RegExp_test(objs[last.script].excludes[i], last.href)

\* the step is a page load: last' is its record
PageLoaded == last'.api = "domContentLoaded" /\ last'.at = ops' /\ ops' = ops + 1
\* the source files evaluated for script id, in the order of their evaluation
Evaluated(evs, id) ==
  LET mine(e) == e.kind = "evalInSandbox" /\ e.script = id
      sel == SelectSeq(evs, mine)
  IN [i \in DOMAIN sel |-> sel[i].file]

\* C21: when a page is loaded at a URL, an API object or an execution context
\* is made and a source file is evaluated only for scripts that are tracked
\* by the registry, enabled, and runnable at that URL.
C21_InjectsOnlyTrackedEnabledRunnable ==
  [][PageLoaded =>
       \A i \in DOMAIN effects' :
         LET id == effects'[i].script
         IN /\ Tracked(id)
            /\ objs[id].enabled
            /\ Script_isRunnable(objs[id], last'.href)]_vars

\* a page load has injected one script and left out another, tracked and
\* runnable there, that is disabled
C21_Witness ==
  /\ last.api = "domContentLoaded"
  /\ last.at = ops
  /\ \E id \in Ids : Evaluated(effects, id) # <<>>
  /\ \E id \in Ids :
       /\ Tracked(id)
       /\ ~objs[id].enabled
       /\ Script_isRunnable(objs[id], last.href)
       /\ \A i \in DOMAIN effects : effects[i].script # id

\* C26: in one injection of a script, the files of its requires are evaluated
\* in the order of their declaration and the script's own source file after
\* all of them: the files evaluated are the first ones of that order, and the
\* own source, when it is reached, is the last.
C26_RequiresInOrderThenOwn ==
  [][PageLoaded =>
       \A id \in Ids :
         LET o        == objs[id]
             declared == [i \in DOMAIN o.requires |->
                            File_uri(o.directory, o.requires[i].filename)]
             own      == File_uri(o.directory, o.filename)
             files    == Evaluated(effects', id)
         IN /\ Len(files) <= Len(declared) + 1
            /\ \A i \in DOMAIN files :
                 files[i] = IF i <= Len(declared) THEN declared[i] ELSE own]_vars

\* a script with two requires has been injected: three files were evaluated
C26_Witness ==
  /\ last.api = "domContentLoaded"
  /\ last.at = ops
  /\ \E id \in Ids :
       /\ Len(objs[id].requires) = 2
       /\ Len(Evaluated(effects, id)) = 3

\* C27: when the evaluation of a source file throws during a page load, the
\* error is logged, every source file of every script that matches the page
\* is still evaluated, and the page load returns without an exception.
C27_ThrowIsLoggedAndInjectionGoesOn ==
  [][PageLoaded =>
       /\ last'.outcome = "returned"
       /\ \A i \in DOMAIN effects' :
            (effects'[i].kind = "evalInSandbox" /\ effects'[i].thrown # "none") =>
              /\ i < Len(effects')
              /\ effects'[i + 1].kind = "logError"
              /\ effects'[i + 1].file = effects'[i].file
       /\ \A id \in Ids :
            (Tracked(id) /\ domContentLoaded_test(objs[id], last'.href)) =>
              Len(Evaluated(effects', id)) = Len(objs[id].requires) + 1]_vars

\* C28: a script's API object is made by the first injection of the script and
\* never replaced: every later injection uses the same one, no API object is
\* made for a script that has one, and no two scripts share one.  Every
\* injection makes an execution context of its own, in which its source files
\* are evaluated, different from those of the other injections of the page
\* load and of the page load before.
C28_OneApiManyContexts ==
  [][/\ \A id \in Ids : objs[id].api # <<>> => objs'[id].api = objs[id].api
     /\ PageLoaded =>
          /\ \A i \in DOMAIN effects' :
               LET e == effects'[i]
               IN /\ e.kind = "ScriptApi" =>
                       /\ objs[e.script].api = <<>>
                       /\ objs'[e.script].api = e.api
                  /\ e.kind = "sandbox" =>
                       /\ e.api # <<>>
                       /\ e.api = objs'[e.script].api
                       /\ \A j \in DOMAIN effects' :
                            (j # i /\ effects'[j].kind = "sandbox") =>
                              effects'[j].sandbox # e.sandbox
                       /\ \A j \in DOMAIN effects :
                            effects[j].kind = "sandbox" => effects[j].sandbox # e.sandbox
                  /\ e.kind = "evalInSandbox" =>
                       \E j \in 1..(i - 1) :
                         /\ effects'[j].kind = "sandbox"
                         /\ effects'[j].script = e.script
                         /\ effects'[j].sandbox = e.sandbox
          /\ \A a, b \in Ids :
               (a # b /\ objs'[a].api # <<>>) => objs'[a].api # objs'[b].api]_vars

\* a script is injected for the second time: the execution context is of this
\* page load, the API object of an earlier one
C28_Witness ==
  /\ last.api = "domContentLoaded"
  /\ last.at = ops
  /\ \E i \in DOMAIN effects :
       /\ effects[i].kind = "sandbox"
       /\ effects[i].sandbox[1] = ops
       /\ effects[i].api[1] < ops
       /\ objs[effects[i].script].api = effects[i].api

(***************************************************************************)
(* GM_xmlhttpRequest (ScriptApiXmlHttpRequest of                           *)
(* src/src/modules/script/console.jsm, and the revision of the API in      *)
(* src/unnamed/part_003 that makes the request itself).  flows holds what  *)
(* is pending or over: the timers of the hidden window, the privileged     *)
(* requests, the timers of the page; effects holds what the last step did. *)
(***************************************************************************)
MaxXhr == 1       \* calls of GM_xmlhttpRequest in one run

XhrEvents == {"onload", "onerror", "onreadystatechange"}
Permitted == {"http", "https", "ftp"}
\* the schemes of details.url; "" is a URL that IO.extractScheme does not take
XhrSchemes == Schemes \cup {""}
\* the callbacks a script gives
XhrHandlers == {{}, {"onload"}, XhrEvents}
Details == [scheme : XhrSchemes, handlers : XhrHandlers]

Item(kind, details, on, readyState, event) ==
  [kind |-> kind, details |-> details, on |-> on, readyState |-> readyState,
   event |-> event]
NoHandler == [e \in XhrEvents |-> "none"]
Did(kind, event, within) == [kind |-> kind, event |-> event, within |-> within]

\* ScriptApiXmlHttpRequest.prototype._setupRequestEvent: the handler set on
\* the request hands the script's callback to the page's setTimeout
ScriptApiXmlHttpRequest_setupRequestEvent(details, event) ==
  IF event \in details.handlers THEN "deferred" ELSE "none"

\* setupXhrHandler: the handler set on the request calls the script's callback
setupXhrHandler(details, event) ==
  IF event \in details.handlers THEN "direct" ELSE "none"

\* contentStartRequest handing every URL that has a scheme to the timer
ScriptApiXmlHttpRequest_contentStartRequest_anyScheme(pending, details) ==
  IF details.scheme = ""
  THEN [flows |-> pending, effects |-> <<Did("throw", "NS_ERROR_MALFORMED_URI", "call")>>,
        outcome |-> "MalformedUri"]
  ELSE [flows |-> Append(pending, Item("chromeTimer", details, NoHandler, 0, "")),
        effects |-> <<Did("chromeWin.setTimeout", "", "call")>>, outcome |-> "returned"]

\* ScriptApiXmlHttpRequest.prototype.contentStartRequest
ScriptApiXmlHttpRequest_contentStartRequest(pending, details) ==
  IF details.scheme = ""
  THEN [flows |-> pending, effects |-> <<Did("throw", "NS_ERROR_MALFORMED_URI", "call")>>,
        outcome |-> "MalformedUri"]
  ELSE IF details.scheme \in Permitted
  THEN [flows |-> Append(pending, Item("chromeTimer", details, NoHandler, 0, "")),
        effects |-> <<Did("chromeWin.setTimeout", "", "call")>>, outcome |-> "returned"]
  ELSE [flows |-> pending, effects |-> <<Did("throw", "Invalid url", "call")>>,
        outcome |-> "InvalidUrl"]

\* ScriptApiXmlHttpRequest.prototype._chromeStartRequest
ScriptApiXmlHttpRequest_chromeStartRequest(details) ==
  Item("request", details,
       [e \in XhrEvents |-> ScriptApiXmlHttpRequest_setupRequestEvent(details, e)], 1, "")

\* GM_xmlhttpRequest of src/unnamed/part_003, after its provenance check
GM_xmlhttpRequest_inline(pending, details) ==
  IF details.scheme = ""
  THEN [flows |-> pending, effects |-> <<Did("throw", "NS_ERROR_MALFORMED_URI", "call")>>,
        outcome |-> "MalformedUri"]
  ELSE IF details.scheme \in Permitted
  THEN [flows |-> Append(pending,
                         Item("request", details,
                              [e \in XhrEvents |-> setupXhrHandler(details, e)], 1, "")),
        effects |-> <<Did("new XMLHttpRequest", "", "call"), Did("send", "", "call")>>,
        outcome |-> "returned"]
  ELSE [flows |-> pending, effects |-> <<Did("throw", "Unauthorized URL", "call")>>,
        outcome |-> "InvalidUrl"]

Revisions == {"console.jsm", "part_003"}

\* the pending things without the i-th, which is over
Without(pending, i) == SubSeq(pending, 1, i - 1) \o SubSeq(pending, i + 1, Len(pending))

XhrCommit(pending, did) ==
  /\ flows' = pending
  /\ effects' = did
  /\ trace' = <<>>
  /\ UNCHANGED <<objs, scripts, doc, fs, prefs, owner, stack, observers>>

\* a script calls GM_xmlhttpRequest(details) of the revision its sandbox binds
ContentStartRequest ==
  \E revision \in Revisions, details \in Details :
    LET r == IF revision = "console.jsm"
             THEN ScriptApiXmlHttpRequest_contentStartRequest(flows, details)
             ELSE GM_xmlhttpRequest_inline(flows, details)
    IN /\ ops < MaxXhr
       /\ ops' = ops + 1
       /\ last' = [api |-> "GM_xmlhttpRequest", revision |-> revision, details |-> details,
                   outcome |-> r.outcome]
       /\ XhrCommit(r.flows, r.effects)

\* a timer of the hidden window fires: _chromeStartRequest(url, details)
ChromeStartRequest ==
  \E i \in DOMAIN flows :
    /\ flows[i].kind = "chromeTimer"
    /\ XhrCommit([flows EXCEPT ![i] = ScriptApiXmlHttpRequest_chromeStartRequest(@.details)],
                 <<Did("new XMLHttpRequest", "", "chromeTimer"),
                   Did("send", "", "chromeTimer")>>)
    /\ UNCHANGED <<last, ops>>

\* the privileged request fires an event: readystatechange on its way to
\* readyState 4, then load; error at any time
RequestEvent ==
  \E i \in DOMAIN flows, event \in XhrEvents :
    LET req  == flows[i]
        next == IF event = "onreadystatechange"
                THEN [flows EXCEPT ![i].readyState = @ + 1]
                ELSE Without(flows, i)
    IN /\ req.kind = "request"
       /\ event = "onreadystatechange" => req.readyState < 4
       /\ event = "onload" => req.readyState = 4
       /\ CASE req.on[event] = "none" -> XhrCommit(next, <<>>)
            [] req.on[event] = "deferred" ->
                 XhrCommit(Append(next, Item("contentTimer", req.details, NoHandler, 0, event)),
                           <<Did("unsafeWin.setTimeout", event, "request")>>)
            [] req.on[event] = "direct" ->
                 XhrCommit(next, <<Did("callback", event, "request")>>)
       /\ UNCHANGED <<last, ops>>

\* a timer of the page fires: details[event](responseState)
ContentTimer ==
  \E i \in DOMAIN flows :
    /\ flows[i].kind = "contentTimer"
    /\ XhrCommit(Without(flows, i),
                 <<Did("callback", flows[i].event, "contentTimer")>>)
    /\ UNCHANGED <<last, ops>>

InitXhr ==
  /\ objs = <<>>
  /\ scripts = <<>>
  /\ doc = <<>>
  /\ trace = <<>>
  /\ fs = EmptyMap
  /\ flows = <<>>
  /\ prefs = EmptyMap
  /\ owner = EmptyMap
  /\ stack = <<>>
  /\ effects = <<>>
  /\ last = NoCall
  /\ ops = 0
  /\ observers = <<>>

NextXhr ==
  \/ ContentStartRequest
  \/ ChromeStartRequest
  \/ RequestEvent
  \/ ContentTimer

SpecXhr == InitXhr /\ [][NextXhr]_vars

\* the step is a call of GM_xmlhttpRequest: last' is its record
XhrCalled == last'.api = "GM_xmlhttpRequest" /\ ops' = ops + 1

\* C24: a call of xmlhttpRequest schedules or creates a request only when the
\* scheme of details.url is http, https or ftp; with any other scheme the call
\* throws its invalid-URL error and does nothing else: no timer is set and no
\* request is created, then or later.
C24_OnlyPermittedSchemesDispatched ==
  [][/\ XhrCalled =>
          LET scheme == last'.details.scheme
          IN /\ flows' # flows => scheme \in Permitted
             /\ scheme \in Permitted => (Len(flows') = Len(flows) + 1 /\ last'.outcome = "returned")
             /\ (scheme # "" /\ scheme \notin Permitted) =>
                  /\ last'.outcome = "InvalidUrl"
                  /\ flows' = flows
                  /\ Len(effects') = 1
                  /\ effects'[1].kind = "throw"
                  /\ effects'[1].event \in {"Invalid url", "Unauthorized URL"}
     /\ \A i \in DOMAIN flows' : flows'[i].details.scheme \in Permitted]_vars

\* a call with a file: URL has thrown, and nothing is pending
C24_Witness ==
  /\ last.api = "GM_xmlhttpRequest"
  /\ last.details.scheme = "file"
  /\ last.outcome = "InvalidUrl"
  /\ flows = <<>>
  /\ Len(effects) = 1
  /\ effects[1].kind = "throw"

\* C25: a callback of the script (onload, onerror, onreadystatechange) is
\* called only by a zero-delay timer of the page: never within the call of
\* xmlhttpRequest and never within the event handler of the privileged
\* request.
C25_CallbacksOnlyDeferred ==
  \A i \in DOMAIN effects :
    effects[i].kind = "callback" => effects[i].within = "contentTimer"

\* C37: when uninstall is called with a script whose (namespace, name) no
\* tracked script has, the tracked collection is after the call what it was
\* before it.
C37_UninstallUntrackedKeepsCollection ==
  [][\A id \in Ids, uninstallPrefs \in BOOLEAN :
       (Config_find(Reg, id) = 0 /\ StepIs(Config_uninstall(Reg, id, uninstallPrefs))) =>
         scripts' = scripts]_vars

(***************************************************************************)
(* Moves in a collection of three scripts.                                 *)
(***************************************************************************)
MoveSources ==
  [name : {<<"a">>, <<"b">>, <<"c">>}, namespace : {<<"n">>}, includes : {<<>>},
   excludes : {<<>>}, requires : {<<>>}, resources : {<<>>}]

InitMove ==
  \E a, b, c \in MoveSources :
    /\ a.name = <<"a">>
    /\ b.name = <<"b">>
    /\ c.name = <<"c">>
    /\ LET R == Installed(Installed(Installed(EmptyReg, a), b), c)
       IN /\ objs = R.objs
          /\ scripts = R.scripts
          /\ doc = R.doc
          /\ fs = R.fs
    /\ trace = <<>>
    /\ flows = EmptyMap
    /\ prefs = EmptyMap
    /\ owner = EmptyMap
    /\ stack = <<>>
    /\ effects = <<>>
    /\ last = NoCall
    /\ ops = 0
    /\ observers = <<>>

NextMove ==
  \/ Move
  \/ Uninstall

SpecMove == InitMove /\ [][NextMove]_vars

\* how many times x is in the collection
Count(seq, x) == Cardinality({i \in DOMAIN seq : seq[i] = x})
\* the collection without x, in its order
Others(seq, x) == LET other(y) == y # x IN SelectSeq(seq, other)

\* C40: after move(script, destination) the collection has the length it had
\* and holds every script as many times as before, and the scripts other than
\* the moved one are in the order they were in.
C40_MoveIsPermutation ==
  [][\A id \in Ids : \A destination \in Destinations :
       StepIs(Config_move(Reg, id, destination)) =>
         /\ Len(scripts') = Len(scripts)
         /\ \A x \in Ids : Count(scripts', x) = Count(scripts, x)
         /\ Others(scripts', id) = Others(scripts, id)]_vars

\* the script installed first has been moved to the end of a collection of
\* three
C40_Witness ==
  /\ Len(scripts) = 3
  /\ scripts[3] = 1
  /\ Notified(trace, "move", 1)
  /\ LastEvent(trace).data = 2

(***************************************************************************)
(* Stored values and uninstall: two installed scripts whose namespaces end *)
(* with a slash or not.                                                    *)
(***************************************************************************)
InitPurge ==
  \E a, b \in ApiSources :
    /\ ~SameIdentity(a, b)
    /\ LET R == Installed(Installed(EmptyReg, a), b)
       IN /\ objs = R.objs
          /\ scripts = R.scripts
          /\ doc = R.doc
          /\ fs = R.fs
    /\ trace = <<>>
    /\ flows = EmptyMap
    /\ prefs = EmptyMap
    /\ owner = EmptyMap
    /\ stack = <<>>
    /\ effects = <<>>
    /\ last = NoCall
    /\ ops = 0
    /\ observers = <<>>

NextPurge ==
  \/ StoreValue
  \/ Uninstall

SpecPurge == InitPurge /\ [][NextPurge]_vars

\* C36: after uninstall(script, true) of a tracked script, whatever its
\* namespace and name, the preference store holds no value under the prefix
\* the script's API object stores its values under.
C36_PurgeTakesWhatTheApiStored ==
  [][\A id \in Ids :
       (/\ Tracked(id)
        /\ StepIs(Config_uninstall(Reg, id, TRUE))
        /\ ~Threw([trace |-> trace']))
       => \A f \in DOMAIN prefs' : ~StartsWith(f, ScriptApi(objs[id]).prefs)]_vars

\* C39: when install(b) completes and a tracked script a had b's identity,
\* the operation saves, notifies the "uninstall" of a, saves again and
\* notifies the "install" of b, in this order, and the document as it is when
\* the "uninstall" is notified holds no script of that identity.
C39_ReplaceNotifiesUninstallThenInstall ==
  [][\A b \in Ids :
       (/\ Config_find(Reg, b) > 0
        /\ StepIs(Config_install(Reg, b))
        /\ ~Threw([trace |-> trace']))
       => LET a == scripts[Config_find(Reg, b)]
          IN /\ Len(trace') = 4
             /\ trace'[1].kind = "save"
             /\ IsNotify(trace'[2])
             /\ trace'[2].event = "uninstall"
             /\ trace'[2].script = a
             /\ trace'[2].doc = trace'[1].doc
             /\ \A i \in DOMAIN trace'[2].doc :
                  ~SameIdentity(trace'[2].doc[i], objs[b])
             /\ trace'[3].kind = "save"
             /\ IsNotify(trace'[4])
             /\ trace'[4].event = "install"
             /\ trace'[4].script = b
             /\ trace'[4].doc = trace'[3].doc]_vars

\* an install has replaced the tracked script by another object of its
\* identity: two notifications about two objects, one script tracked
C39_Witness ==
  /\ Len(trace) = 4
  /\ IsNotify(trace[2])
  /\ trace[2].event = "uninstall"
  /\ IsNotify(trace[4])
  /\ trace[4].event = "install"
  /\ trace[2].script # trace[4].script
  /\ Len(scripts) = 1

(***************************************************************************)
(* The installation of a downloaded script when every load that was        *)
(* started ends: File.load calls onComplete for it.                        *)
(***************************************************************************)
FairUrls == [scheme : {"http", "https", "file", "data"}, path : {<<"/", "r", ".", "j", "s">>}]
FairSources ==
  {src \in DownloadedSources :
     /\ \A i \in DOMAIN src.requires : src.requires[i].downloadURL \in FairUrls
     /\ \A i \in DOMAIN src.resources : src.resources[i].downloadURL \in FairUrls}

\* a script downloaded from the web into an empty registry
InitFetchFair ==
  \E src \in FairSources :
    LET R == Script_fromSource(EmptyReg, src, [scheme |-> "http",
                                 path |-> <<"/", "a", ".", "u", "s", "e", "r", ".", "j", "s">>])
    IN /\ objs = R.objs
       /\ scripts = R.scripts
       /\ doc = R.doc
       /\ fs = R.fs
       /\ trace = <<>>
       /\ flows = EmptyMap
       /\ prefs = EmptyMap
       /\ owner = EmptyMap
       /\ stack = <<>>
       /\ effects = <<>>
       /\ last = NoCall
       /\ ops = 0
       /\ observers = <<>>

\* a load is in flight: the state in which LoadComplete can happen
LoadPending == \E id \in DOMAIN flows : flows[id].inflight # {}

\* File.load's progress listener is called when the channel ends, so a load
\* in flight does not stay in flight for ever.  The condition is
\* WF_vars(LoadComplete) written out, LoadPending being the states in which
\* the action is enabled: a completion always adds to the log of its flow.
SpecFetchFair ==
  /\ InitFetchFair
  /\ [][NextFetch]_vars
  /\ ([]<>~LoadPending \/ []<><<LoadComplete>>_vars)

\* the places in the log of the installation of id where a callback is called
Callbacks(id) == {i \in DOMAIN flows[id].log : flows[id].log[i].ev \in {"onSuccess", "onError"}}
\* the dependencies whose loads ended well, in the order they ended
FetchedWell(id) ==
  LET well(e) == e.ev = "complete" /\ e.status = 0
      sel == SelectSeq(flows[id].log, well)
  IN [i \in DOMAIN sel |-> sel[i].dep]
\* the dependencies of id, requires then resources
AllDeps(id) ==
  [i \in DOMAIN objs[id].requires |-> Ref("require", i)]
    \o [i \in DOMAIN objs[id].resources |-> Ref("resource", i)]

\* C38: an installation that has started never has more than one call of
\* onSuccess or onError, has onSuccess only when every dependency, requires
\* then resources, has been fetched with status 0 in that order, has no load
\* in flight once a callback is called, and, every load ending, comes to have
\* exactly one call.
C38_ExactlyOneCallback ==
  /\ [](\A id \in 1..MaxObjs :
          id \in DOMAIN flows =>
            /\ Cardinality(Callbacks(id)) <= 1
            /\ Callbacks(id) # {} => flows[id].inflight = {}
            /\ (\E i \in Callbacks(id) : flows[id].log[i].ev = "onSuccess") =>
                 FetchedWell(id) = AllDeps(id))
  /\ \A id \in 1..MaxObjs :
       (id \in DOMAIN flows) ~> (id \in DOMAIN flows /\ Cardinality(Callbacks(id)) = 1)

\* an installation with a require and a resource has ended in onSuccess
C38_Witness ==
  \E id \in DOMAIN flows :
    /\ Len(objs[id].requires) = 1
    /\ Len(objs[id].resources) = 1
    /\ \E i \in Callbacks(id) : flows[id].log[i].ev = "onSuccess"
    /\ Len(FetchedWell(id)) = 2

(***************************************************************************)
(* The header block of a script source, line by line                       *)
(* (ScriptMetadata.prototype.parse, src/src/modules/script/metadata.jsm).  *)
(***************************************************************************)
MaxLines == 3     \* lines of a parsed source

OpenLine == <<"/", "/", " ", "=", "=", "U", "s", "e", "r", "S", "c", "r", "i", "p", "t", "=", "=">>
CloseLine == <<"/", "/", " ", "=", "=", "/", "U", "s", "e", "r", "S", "c", "r", "i", "p", "t", "=", "=">>
OpenLineAndMore == OpenLine \o <<"x">>
NameLine == <<"/", "/", " ", "@", "n", "a", "m", "e", " ", "b">>
UnwrapLine == <<"/", "/", " ", "@", "u", "n", "w", "r", "a", "p">>
UnwrapValueLine == <<"/", "/", " ", "@", "u", "n", "w", "r", "a", "p", " ", "y">>
CodeLine == <<"x", "=", "1">>
HeaderMark == <<"/", "/", " ", "@">>
UserJs == <<".", "u", "s", "e", "r", ".", "j", "s">>

WhiteSpace == {" "}

\* s.indexOf(p): the first place where p occurs in s, 0 when there is none
IndexOfString(s, p) ==
  LET at == {i \in 1..(Len(s) - Len(p) + 1) : SubSeq(s, i, i + Len(p) - 1) = p}
  IN IF at = {} THEN 0 ELSE CHOOSE i \in at : \A j \in at : i <= j

\* s.lastIndexOf(p): the last place where p occurs in s, 0 when there is none
LastIndexOfString(s, p) ==
  LET at == {i \in 1..(Len(s) - Len(p) + 1) : SubSeq(s, i, i + Len(p) - 1) = p}
  IN IF at = {} THEN 0 ELSE CHOOSE i \in at : \A j \in at : i >= j

\* nsIURI.spec
UriSpec(uri) == uri.scheme \o <<":", "/", "/">> \o uri.host \o uri.path

\* name.substring(0, name.indexOf(".user.js")), then what follows the last "/"
parseScriptName(sourceUri) ==
  LET spec == UriSpec(sourceUri)
      name == SubSeq(spec, 1, IndexOfString(spec, UserJs) - 1)
  IN SubSeq(name, LastIndexOfString(name, <<"/">>) + 1, Len(name))

\* line.match(/\/\/ \@(\S+)(?:\s+([^\n]+))?/): the places where "// @" is
\* followed by a character that is no white space
MatchPlaces(line) ==
  {i \in 1..(Len(line) - 4) :
     SubSeq(line, i, i + 3) = HeaderMark /\ line[i + 4] \notin WhiteSpace}

\* the end of the longest run of characters in (or out of) a class from i on
RECURSIVE RunEnd(_, _, _, _)
RunEnd(line, i, class, inside) ==
  IF i < Len(line) /\ ((line[i + 1] \in class) = inside)
  THEN RunEnd(line, i + 1, class, inside)
  ELSE i

\* the match of a line: [matched, header, value]; a value of <<>> is the
\* undefined second group
HeaderMatch(line) ==
  IF MatchPlaces(line) = {} THEN [matched |-> FALSE, header |-> <<>>, value |-> <<>>]
  ELSE LET start == CHOOSE i \in MatchPlaces(line) : \A j \in MatchPlaces(line) : i <= j
           hEnd == RunEnd(line, start + 4, WhiteSpace, FALSE)
           wEnd == RunEnd(line, hEnd, WhiteSpace, TRUE)
           value == IF wEnd = hEnd THEN <<>>
                    ELSE IF wEnd < Len(line) THEN SubSeq(line, wEnd + 1, Len(line))
                    ELSE IF wEnd - hEnd >= 2 THEN <<line[Len(line)]>>
                    ELSE <<>>
       IN [matched |-> TRUE, header |-> SubSeq(line, start + 4, hEnd), value |-> value]

\* the revisions of parse: metadata.jsm has no branch for a plain @header,
\* part_006 and part_005 set unwrap there
ParseRevisions == {"metadata.jsm", "part_006"}

NewMetadata ==
  [name |-> <<>>, namespace |-> <<>>, description |-> <<>>, includes |-> <<>>,
   excludes |-> <<>>, requires |-> <<>>, resources |-> <<>>, unwrap |-> FALSE,
   enabled |-> FALSE, thrown |-> FALSE]

\* ScriptRequire.prototype.parse: the URI of the line, nothing fetched yet
ScriptRequire_parse(value) == [downloadURL |-> value, filename |-> <<>>]

\* value.match(/(\S+)\s+(.*)/): the places where a run that is no white
\* space is followed by white space
ResourcePlaces(value) ==
  {i \in 1..Len(value) :
     /\ value[i] \notin WhiteSpace
     /\ RunEnd(value, i, WhiteSpace, FALSE) < Len(value)}

\* ScriptResource.prototype.parse: [thrown, resource]
ScriptResource_parse(resources, value) ==
  LET none == [name |-> <<>>, downloadURL |-> <<>>, filename |-> <<>>, mimetype |-> <<>>,
               charset |-> <<>>]
  IN IF ResourcePlaces(value) = {} THEN [thrown |-> TRUE, resource |-> none]
     ELSE LET start == CHOOSE i \in ResourcePlaces(value) :
                         \A j \in ResourcePlaces(value) : i <= j
              nEnd == RunEnd(value, start, WhiteSpace, FALSE)
              wEnd == RunEnd(value, nEnd, WhiteSpace, TRUE)
              name == SubSeq(value, start, nEnd)
          IN [thrown |-> \E i \in DOMAIN resources : resources[i].name = name,
              resource |-> [none EXCEPT !.name = name,
                                        !.downloadURL = SubSeq(value, wEnd + 1, Len(value))]]

\* the body of the loop for one line of the block
ScriptMetadata_parse_header(M, line, rev) ==
  LET match == HeaderMatch(line)
      header == match.header
      value == match.value
  IN IF ~match.matched THEN M
     ELSE IF value # <<>>
     THEN CASE header = <<"n", "a", "m", "e">> -> [M EXCEPT !.name = value]
            [] header = <<"n", "a", "m", "e", "s", "p", "a", "c", "e">> ->
                 [M EXCEPT !.namespace = value]
            [] header = <<"d", "e", "s", "c", "r", "i", "p", "t", "i", "o", "n">> ->
                 [M EXCEPT !.description = value]
            [] header = <<"i", "n", "c", "l", "u", "d", "e">> ->
                 [M EXCEPT !.includes = Append(@, value)]
            [] header = <<"e", "x", "c", "l", "u", "d", "e">> ->
                 [M EXCEPT !.excludes = Append(@, value)]
            [] header = <<"r", "e", "q", "u", "i", "r", "e">> ->
                 [M EXCEPT !.requires = Append(@, ScriptRequire_parse(value))]
            [] header = <<"r", "e", "s", "o", "u", "r", "c", "e">> ->
                 LET parsed == ScriptResource_parse(M.resources, value)
                 IN IF parsed.thrown THEN [M EXCEPT !.thrown = TRUE]
                    ELSE [M EXCEPT !.resources = Append(@, parsed.resource)]
            [] OTHER -> M
     ELSE IF rev # "metadata.jsm" /\ header = <<"u", "n", "w", "r", "a", "p">>
          THEN [M EXCEPT !.unwrap = TRUE]
          ELSE M

\* the loop over source.match(/.+/g)
RECURSIVE ScriptMetadata_parse_lines(_, _, _, _)
ScriptMetadata_parse_lines(lines, meta, M, rev) ==
  IF lines = <<>> \/ M.thrown THEN M
  ELSE IF ~meta
       THEN ScriptMetadata_parse_lines(Tail(lines), StartsWith(Head(lines), OpenLine), M, rev)
       ELSE IF StartsWith(Head(lines), CloseLine) THEN M
       ELSE ScriptMetadata_parse_lines(Tail(lines), TRUE,
                                       ScriptMetadata_parse_header(M, Head(lines), rev), rev)

\* the loop written with the delimiters compared for equality
RECURSIVE ScriptMetadata_parse_lines_exact(_, _, _, _)
ScriptMetadata_parse_lines_exact(lines, meta, M, rev) ==
  IF lines = <<>> \/ M.thrown THEN M
  ELSE IF ~meta
       THEN ScriptMetadata_parse_lines_exact(Tail(lines), Head(lines) = OpenLine, M, rev)
       ELSE IF Head(lines) = CloseLine THEN M
       ELSE ScriptMetadata_parse_lines_exact(Tail(lines), TRUE,
                                       ScriptMetadata_parse_header(M, Head(lines), rev), rev)

\* the defaults given after the loop, with the name taken from the path
ScriptMetadata_parse_defaults_path(M, uri) ==
  IF M.thrown THEN M ELSE
  [M EXCEPT !.name = IF M.name = <<>>
                     THEN SubSeq(uri.path, 2, Len(uri.path)) ELSE @,
            !.namespace = IF M.namespace = <<>> THEN uri.host ELSE @,
            !.includes = IF Len(@) = 0 THEN <<<<"*">>>> ELSE @,
            !.enabled = TRUE]

\* the defaults given after the loop, which a parse that has thrown does
\* not come to
ScriptMetadata_parse_defaults(M, uri) ==
  IF M.thrown THEN M ELSE
  [M EXCEPT !.name = IF M.name = <<>> THEN parseScriptName(uri) ELSE @,
            !.namespace = IF M.namespace = <<>> THEN uri.host ELSE @,
            !.includes = IF Len(@) = 0 THEN <<<<"*">>>> ELSE @,
            !.enabled = TRUE]

\* ScriptMetadata.prototype.parse on the lines of a source
ScriptMetadata_parse_source(source, uri, rev) ==
  ScriptMetadata_parse_defaults(
    ScriptMetadata_parse_lines(source, FALSE, NewMetadata, rev), uri)

SourceLines == {OpenLine, CloseLine, OpenLineAndMore, NameLine, UnwrapLine,
                UnwrapValueLine, CodeLine}
ParsedSources == UNION {[1..n -> SourceLines] : n \in 0..MaxLines}
FooExample ==
  [scheme |-> <<"h", "t", "t", "p">>,
   host |-> <<"f", "o", "o", ".", "e", "x", "a", "m", "p", "l", "e">>,
   path |-> <<"/", "b", "a", "r", ".", "u", "s", "e", "r", ".", "j", "s">>]
ParseOrigins ==
  {FooExample,
   [scheme |-> <<"h", "t", "t", "p">>, host |-> <<"h">>,
    path |-> <<"/", "d", "/", "a", ".", "j", "s">>]}

InitParse ==
  /\ objs = <<>>
  /\ scripts = <<>>
  /\ doc = <<>>
  /\ trace = <<>>
  /\ fs = EmptyMap
  /\ flows = EmptyMap
  /\ prefs = EmptyMap
  /\ owner = EmptyMap
  /\ stack = <<>>
  /\ effects = <<>>
  /\ last = NoCall
  /\ ops = 0
  /\ observers = <<>>

\* a source is parsed: the source, its origin and the metadata are kept
Parse ==
  \E source \in ParsedSources, uri \in ParseOrigins, rev \in ParseRevisions :
    /\ last = NoCall
    /\ last' = [api |-> "parse", source |-> source, uri |-> uri, rev |-> rev,
                meta |-> ScriptMetadata_parse_source(source, uri, rev)]
    /\ UNCHANGED <<objs, scripts, doc, trace, fs, flows, prefs, owner, stack, effects, ops,
                   observers>>

NextParse == Parse

SpecParse == InitParse /\ [][NextParse]_vars

Parsed == last.api = "parse"

\* C31: a parse gives what reading the header lines between a line equal to
\* "// ==UserScript==" and the first later line equal to "// ==/UserScript=="
\* (or the end of the source) gives.
C31_DelimitersAreExactLines ==
  Parsed =>
    last.meta = ScriptMetadata_parse_defaults(
                  ScriptMetadata_parse_lines_exact(last.source, FALSE, NewMetadata, last.rev),
                  last.uri)

\* the source opens its block with its first line and never closes it
BlockToTheEnd ==
  /\ Parsed
  /\ Len(last.source) >= 1
  /\ last.source[1] = OpenLine
  /\ \A i \in 2..Len(last.source) : ~StartsWith(last.source[i], CloseLine)

\* C32: the metadata parsed from a header block has unwrap set exactly when
\* the block has a line "// @unwrap".
C32_UnwrapLineSetsUnwrap ==
  BlockToTheEnd =>
    (last.meta.unwrap <=> \E i \in 2..Len(last.source) : last.source[i] = UnwrapLine)

RECURSIVE DropSpaces(_)
DropSpaces(s) == IF s # <<>> /\ Head(s) \in WhiteSpace THEN DropSpaces(Tail(s)) ELSE s

\* rule.replace(/^\s*(\+|-)?\s*(.*)\s*$/, "$2")
getMask(rule) ==
  LET signed == DropSpaces(rule)
  IN DropSpaces(IF signed # <<>> /\ Head(signed) \in {"+", "-"} THEN Tail(signed) ELSE signed)

\* /^\s*[^-]/.test(rule): some run of leading white space is followed by a
\* character that is not "-"
isInclude(rule) ==
  \E k \in 0..Len(rule) :
    /\ \A i \in 1..k : rule[i] \in WhiteSpace
    /\ k < Len(rule)
    /\ rule[k + 1] # "-"

\* indexOf(target, mask)
UriSet_indexOf(target, mask) == IndexOf(target, mask)

\* add(target, mask)
UriSet_add(target, mask) ==
  IF UriSet_indexOf(target, mask) > 0
  THEN [target |-> target, returned |-> "false"]
  ELSE [target |-> Append(target, mask), returned |-> "true"]

\* a rule set and what the call on it returned
Outcome(includes, excludes, returned) ==
  [includes |-> includes, excludes |-> excludes, returned |-> returned]

UriSet_addInclude(U, aMask) ==
  LET a == UriSet_add(U.includes, aMask) IN Outcome(a.target, U.excludes, a.returned)

UriSet_addExclude(U, aMask) ==
  LET a == UriSet_add(U.excludes, aMask) IN Outcome(U.includes, a.target, a.returned)

UriSet_addRule(U, aRule) ==
  LET mask == getMask(aRule)
  IN IF mask = <<>> THEN Outcome(U.includes, U.excludes, "false")
     ELSE IF isInclude(aRule) THEN UriSet_addInclude(U, mask)
     ELSE UriSet_addExclude(U, mask)

\* replaceRule: between the two lists it reads oldIndex, a name that is not
\* declared, and so ends in a ReferenceError before either list is touched
UriSet_replaceRule(U, oldRule, newRule) ==
  LET oldMask == getMask(oldRule)
      oldTarget == IF isInclude(oldRule) THEN U.includes ELSE U.excludes
      index == UriSet_indexOf(oldTarget, oldMask)
      newMask == getMask(newRule)
      newTarget == IF isInclude(newRule) THEN U.includes ELSE U.excludes
      no == Outcome(U.includes, U.excludes, "false")
  IN IF oldMask = <<>> THEN no
     ELSE IF index = 0 THEN no
     ELSE IF newMask = <<>> THEN no
     ELSE IF UriSet_indexOf(newTarget, newMask) > 0 THEN no
     ELSE IF isInclude(oldRule) = isInclude(newRule)
          THEN IF isInclude(oldRule)
               THEN Outcome([U.includes EXCEPT ![index] = newMask], U.excludes, "true")
               ELSE Outcome(U.includes, [U.excludes EXCEPT ![index] = newMask], "true")
          ELSE Outcome(U.includes, U.excludes, "ReferenceError")

SetMasks == {<<>>, <<"h">>, <<"g">>}
SetRules == {<<>>, <<" ">>, <<"+">>, <<"-">>, <<"h">>, <<"+", "h">>, <<"-", "h">>,
             <<" ", "-", "g">>, <<"-", " ", "g">>}

\* the rule set of script id
Domain(id) == [includes |-> objs[id].includes, excludes |-> objs[id].excludes]

UriSetCommit(id, api, O) ==
  /\ objs' = [objs EXCEPT ![id].includes = O.includes, ![id].excludes = O.excludes]
  /\ last' = [api |-> api, returned |-> O.returned]
  /\ UNCHANGED <<scripts, doc, trace, fs, flows, prefs, owner, stack, effects, ops, observers>>

AddRule ==
  \E id \in DOMAIN objs, aRule \in SetRules :
    UriSetCommit(id, "addRule", UriSet_addRule(Domain(id), aRule))

AddIncludeMask ==
  \E id \in DOMAIN objs, aMask \in SetMasks :
    UriSetCommit(id, "addInclude", UriSet_addInclude(Domain(id), aMask))

AddExcludeMask ==
  \E id \in DOMAIN objs, aMask \in SetMasks :
    UriSetCommit(id, "addExclude", UriSet_addExclude(Domain(id), aMask))

ReplaceRule ==
  \E id \in DOMAIN objs, oldRule \in SetRules, newRule \in SetRules :
    UriSetCommit(id, "replaceRule", UriSet_replaceRule(Domain(id), oldRule, newRule))

\* a script parsed from a source without @include: its rule set is the one
\* include "*"
InitUriSet ==
  LET R == Script_fromSource(EmptyReg,
             [name |-> <<"a">>, namespace |-> <<"n">>, includes |-> <<>>, excludes |-> <<>>,
              requires |-> <<>>, resources |-> <<>>],
             [scheme |-> "http",
              path |-> <<"/", "a", ".", "u", "s", "e", "r", ".", "j", "s">>])
  IN /\ objs = R.objs
     /\ scripts = R.scripts
     /\ doc = R.doc
     /\ fs = R.fs
     /\ trace = <<>>
     /\ flows = EmptyMap
     /\ prefs = EmptyMap
     /\ owner = EmptyMap
     /\ stack = <<>>
     /\ effects = <<>>
     /\ last = NoCall
     /\ ops = 0
     /\ observers = <<>>

NextUriSet ==
  \/ AddRule
  \/ AddIncludeMask
  \/ AddExcludeMask
  \/ ReplaceRule

SpecUriSet == InitUriSet /\ [][NextUriSet]_vars

\* C34: no rule set has the empty mask among its includes or its excludes.
C34_NoEmptyMask ==
  \A id \in DOMAIN objs :
    /\ \A i \in DOMAIN objs[id].includes : objs[id].includes[i] # <<>>
    /\ \A i \in DOMAIN objs[id].excludes : objs[id].excludes[i] # <<>>

(***************************************************************************)
(* The metadata in config.xml: ScriptMetadata.prototype.toXml and fromXml  *)
(* (script/metadata.jsm), ScriptRequire and ScriptResource toXml/_fromXml. *)
(* A node is [nodeName, attrs, text, childNodes]; getAttribute of an       *)
(* attribute that is not there gives the empty value.                      *)
(***************************************************************************)
TRUE_STRING == <<"t", "r", "u", "e">>
FALSE_STRING == <<"f", "a", "l", "s", "e">>

Element(nodeName, attrs, childNodes) ==
  [nodeName |-> nodeName, attrs |-> attrs, text |-> <<>>, childNodes |-> childNodes]
\* doc.createTextNode
TextNode(text) == [nodeName |-> "#text", attrs |-> EmptyMap, text |-> text, childNodes |-> <<>>]
getAttribute(node, a) == IF a \in DOMAIN node.attrs THEN node.attrs[a] ELSE <<>>

\* ScriptRequire.prototype.toXml
ScriptRequire_toXml_node(require) ==
  Element("Require", [a \in {"filename"} |-> require.filename], <<>>)

\* ScriptRequire.prototype._fromXml
ScriptRequire_fromXml_node(node) ==
  [downloadURL |-> <<>>, filename |-> getAttribute(node, "filename")]

\* ScriptResource.prototype.toXml: charset only when there is one
ScriptResource_toXml(resource) ==
  Element("Resource",
          [a \in {"name", "filename", "mimetype"}
                   \cup (IF resource.charset # <<>> THEN {"charset"} ELSE {}) |->
             CASE a = "name" -> resource.name
               [] a = "filename" -> resource.filename
               [] a = "mimetype" -> resource.mimetype
               [] OTHER -> resource.charset],
          <<>>)

\* _fromXml leaving the charset out
ScriptResource_fromXml_noCharset(node) ==
  [name |-> getAttribute(node, "name"), downloadURL |-> <<>>,
   filename |-> getAttribute(node, "filename"),
   mimetype |-> getAttribute(node, "mimetype"),
   charset |-> <<>>]

\* ScriptResource.prototype._fromXml
ScriptResource_fromXml(node) ==
  [name |-> getAttribute(node, "name"), downloadURL |-> <<>>,
   filename |-> getAttribute(node, "filename"),
   mimetype |-> getAttribute(node, "mimetype"),
   charset |-> getAttribute(node, "charset")]

\* append(childNode): a text node of white space, then the child
RECURSIVE Appended(_)
Appended(children) ==
  IF children = <<>> THEN <<>>
  ELSE <<TextNode(<<"\n", "\t", "\t">>), Head(children)>> \o Appended(Tail(children))

\* ScriptMetadata.prototype.toXml; the revision part_006 (save) adds <Unwrap>
ScriptMetadata_toXml(M, rev) ==
  Element("Script",
          [a \in {"name", "namespace", "description", "enabled"} |->
             CASE a = "name" -> M.name
               [] a = "namespace" -> M.namespace
               [] a = "description" -> M.description
               [] OTHER -> IF M.enabled THEN TRUE_STRING ELSE FALSE_STRING],
          Appended(
            [i \in DOMAIN M.includes |-> Element("Include", EmptyMap, <<TextNode(M.includes[i])>>)]
            \o [i \in DOMAIN M.excludes |->
                  Element("Exclude", EmptyMap, <<TextNode(M.excludes[i])>>)]
            \o [i \in DOMAIN M.requires |-> ScriptRequire_toXml_node(M.requires[i])]
            \o [i \in DOMAIN M.resources |-> ScriptResource_toXml(M.resources[i])]
            \o (IF rev # "metadata.jsm" /\ M.unwrap
                THEN <<Element("Unwrap", EmptyMap, <<>>)>> ELSE <<>>)))

\* the loop of fromXml over node.childNodes
RECURSIVE ScriptMetadata_fromXml_children(_, _, _)
ScriptMetadata_fromXml_children(M, childNodes, rev) ==
  IF childNodes = <<>> THEN M
  ELSE LET childNode == Head(childNodes)
           M1 == CASE childNode.nodeName = "Include" ->
                        [M EXCEPT !.includes = Append(@, childNode.childNodes[1].text)]
                   [] childNode.nodeName = "Exclude" ->
                        [M EXCEPT !.excludes = Append(@, childNode.childNodes[1].text)]
                   [] childNode.nodeName = "Require" ->
                        [M EXCEPT !.requires = Append(@, ScriptRequire_fromXml_node(childNode))]
                   [] childNode.nodeName = "Resource" ->
                        [M EXCEPT !.resources = Append(@, ScriptResource_fromXml(childNode))]
                   [] childNode.nodeName = "Unwrap" /\ rev # "metadata.jsm" ->
                        [M EXCEPT !.unwrap = TRUE]
                   [] OTHER -> M
       IN ScriptMetadata_fromXml_children(M1, Tail(childNodes), rev)

\* ScriptMetadata.prototype.fromXml on a new ScriptMetadata
ScriptMetadata_fromXml(node, rev) ==
  ScriptMetadata_fromXml_children(
    [NewMetadata EXCEPT !.name = getAttribute(node, "name"),
                        !.namespace = getAttribute(node, "namespace"),
                        !.description = getAttribute(node, "description"),
                        !.enabled = (getAttribute(node, "enabled") = TRUE_STRING)],
    node.childNodes, rev)

\* what the fetch of the dependencies and the channel leave in them: the
\* name of the file of each, the content type and charset of a resource
RequireFile == <<"r", ".", "j", "s">>
ResourceFile(i) == <<"i">> \o [j \in 1..(i - 1) |-> "1"]
ContentTypes == {<<>>, <<"t">>}
ContentCharsets == {<<>>, <<"u">>}
Fetched(M, contentType, contentCharset) ==
  [M EXCEPT !.requires = [i \in DOMAIN @ |-> [@[i] EXCEPT !.filename = RequireFile]],
            !.resources = [i \in DOMAIN @ |->
                             [@[i] EXCEPT !.filename = ResourceFile(i),
                                          !.mimetype = contentType,
                                          !.charset = contentCharset]]]

IncludeLine == <<"/", "/", " ", "@", "i", "n", "c", "l", "u", "d", "e", " ", "h">>
ExcludeLine == <<"/", "/", " ", "@", "e", "x", "c", "l", "u", "d", "e", " ", " ", "g", " ">>
RequireLine == <<"/", "/", " ", "@", "r", "e", "q", "u", "i", "r", "e", " ", "r", ".", "j", "s">>
ResourceLine == <<"/", "/", " ", "@", "r", "e", "s", "o", "u", "r", "c", "e", " ", "i", " ", "u">>
OtherResourceLine == <<"/", "/", " ", "@", "r", "e", "s", "o", "u", "r", "c", "e", " ", "j", " ", "u">>
HeaderLines == {NameLine, UnwrapLine, IncludeLine, ExcludeLine, RequireLine, ResourceLine,
                OtherResourceLine}
PersistedSources == {<<OpenLine>> \o body : body \in UNION {[1..n -> HeaderLines] : n \in 0..MaxLines}}

\* a script is parsed, its dependencies are fetched, its metadata is written
\* to the document and read again
Persist ==
  \E source \in PersistedSources, rev \in ParseRevisions,
     contentType \in ContentTypes, contentCharset \in ContentCharsets :
    LET parsed == ScriptMetadata_parse_source(source, FooExample, rev)
        M == Fetched(parsed, contentType, contentCharset)
    IN /\ last = NoCall
       /\ ~parsed.thrown
       /\ last' = [api |-> "toXml", rev |-> rev, meta |-> M,
                   loaded |-> ScriptMetadata_fromXml(ScriptMetadata_toXml(M, rev), rev)]
       /\ UNCHANGED <<objs, scripts, doc, trace, fs, flows, prefs, owner, stack, effects, ops,
                      observers>>

NextPersist == Persist

SpecPersist == InitParse /\ [][NextPersist]_vars

\* the fields of each dependency that the document keeps
Filenames(requires) == [i \in DOMAIN requires |-> requires[i].filename]
Kept(resources) ==
  [i \in DOMAIN resources |->
     <<resources[i].name, resources[i].filename, resources[i].mimetype, resources[i].charset>>]

====
